---- MODULE Spec2Model ----
(***************************************************************************)
(* FlexServ-Deployer: the base62 codec (src/base62.rs), the backend        *)
(* parameter set, its CLI serialisation and the parameter sets derived per *)
(* deployment target (src/backend.rs), the server instance, its builder    *)
(* and its deployment hash (src/server.rs, src/utils.rs), the derivation   *)
(* of pod and volume identifiers and the lifecycle of a pod deployment     *)
(* against the Pods service (src/deployment/pod.rs).                       *)
(*                                                                         *)
(* Conventions.  A Rust String is a sequence of one-character strings; a   *)
(* &[u8] is a sequence of integers in 0..255.  Sequences are 1-indexed, so *)
(* the Rust index j of a buffer is the index j+1 here.                     *)
(***************************************************************************)
EXTENDS Integers, Sequences, FiniteSets, TLC

(***************************************************************************)
(* Generic helpers.                                                        *)
(***************************************************************************)
\* vec![x; n]
Repeat(x, n) == [i \in 1..n |-> x]

\* The number of leading elements of s equal to x.
RECURSIVE LeadingCount(_, _)
LeadingCount(s, x) ==
    IF s = <<>> \/ Head(s) # x THEN 0 ELSE 1 + LeadingCount(Tail(s), x)

\* All sequences over S of length at most n.
SeqsUpTo(S, n) == UNION { [1..k -> S] : k \in 0..n }

(***************************************************************************)
(* base62.rs: constants.                                                   *)
(***************************************************************************)
BASE256BLOCK_LEN == 32
BASE62BLOCK_LEN == 43
ALPHABET_SIZE == 62

\* BASE62_LOG2 = 5.954196310386875 (f64).  TLC's integers have 32 bits, so
\* the constant is carried as the rational BASE62_LOG2_NUM / BASE62_LOG2_DEN
\* = 5.954196.  For every length x <= 360 the floor and ceiling the
\* code computes in f64 are the floor and ceiling of the rational expression
\* (compared value by value against the f64 results), and x * BASE62_LOG2_NUM
\* stays below 2^31.
BASE62_LOG2_NUM == 5954196
BASE62_LOG2_DEN == 1000000

ALPHABET ==
    << "0", "1", "2", "3", "4", "5", "6", "7", "8", "9", "A", "B", "C", "D", "E", "F", "G", "H", "I",
       "J", "K", "L", "M", "N", "O", "P", "Q", "R", "S", "T", "U", "V", "W", "X", "Y", "Z", "a", "b",
       "c", "d", "e", "f", "g", "h", "i", "j", "k", "l", "m", "n", "o", "p", "q", "r", "s", "t", "u",
       "v", "w", "x", "y", "z" >>

ALPHABET_VERT ==
    << 255, 255, 255, 255, 255, 255, 255, 255, 255, 255, 255, 255, 255, 255, 255, 255, 255, 255, 255,
       255, 255, 255, 255, 255, 255, 255, 255, 255, 255, 255, 255, 255, 255, 255, 255, 255, 255, 255,
       255, 255, 255, 255, 255, 255, 255, 255, 255, 255, 0, 1, 2, 3, 4, 5, 6, 7, 8, 9, 255, 255, 255,
       255, 255, 255, 255, 10, 11, 12, 13, 14, 15, 16, 17, 18, 19, 20, 21, 22, 23, 24, 25, 26, 27, 28,
       29, 30, 31, 32, 33, 34, 35, 255, 255, 255, 255, 255, 255, 36, 37, 38, 39, 40, 41, 42, 43, 44,
       45, 46, 47, 48, 49, 50, 51, 52, 53, 54, 55, 56, 57, 58, 59, 60, 61, 255, 255, 255, 255, 255,
       255, 255, 255, 255, 255, 255, 255, 255, 255, 255, 255, 255, 255, 255, 255, 255, 255, 255, 255,
       255, 255, 255, 255, 255, 255, 255, 255, 255, 255, 255, 255, 255, 255, 255, 255, 255, 255, 255,
       255, 255, 255, 255, 255, 255, 255, 255, 255, 255, 255, 255, 255, 255, 255, 255, 255, 255, 255,
       255, 255, 255, 255, 255, 255, 255, 255, 255, 255, 255, 255, 255, 255, 255, 255, 255, 255, 255,
       255, 255, 255, 255, 255, 255, 255, 255, 255, 255, 255, 255, 255, 255, 255, 255, 255, 255, 255,
       255, 255, 255, 255, 255, 255, 255, 255, 255, 255, 255, 255, 255, 255, 255, 255, 255, 255, 255,
       255, 255, 255, 255, 255, 255, 255, 255, 255, 255, 255, 255, 255, 255 >>

(***************************************************************************)
(* State.                                                                  *)
(***************************************************************************)
VARIABLES
    b62_pc,       \* codec caller: "src", "encoded", "raw", "roundtrip", "decoded" ("idle": not in use)
    b62_src,      \* the byte sequence handed to encode
    b62_text,     \* the bytes handed to decode
    b62_result,   \* what decode returned
    cli_pc,       \* parameter set: "building", "serialised" ("idle": not in use)
    params,       \* BackendParameterSet.params
    cli_args,     \* what to_cli_args returned
    make_server,  \* the server configuration the caller holds
    deployments,  \* the deployments built so far, by the caller's variable
    instances,    \* the FlexServInstance values built so far, by the caller's variable
    hashes,       \* per instance, what its deployment_hash calls returned, in order
    builder,      \* the FlexServInstanceBuilder being filled
    built,        \* what FlexServInstanceBuilder::build returned
    parameter_set, \* what build_params_for_pod / build_params_for_hpc returned
    pod_deployment, \* the FlexServPodDeployment whose lifecycle the caller drives
    pods,         \* the pods that exist in the Pods service
    volumes,      \* the ids of the volumes that exist in the Pods service
    pod_op,       \* the last lifecycle operation called ("none": none yet)
    api_calls,    \* the calls that operation made to the service, in order
    op_result,    \* what that operation returned
    pods_error,   \* the apis::Error a caller hands to map_pods_error
    mapped_error  \* what map_pods_error returned for it

\* Values of the parts that a specification does not exercise, and of the
\* collections before anything is put into them.
EmptyMap == <<>>
NoDeployments == <<>>
IdleServer ==
    [ tenant_url |-> <<>>, tapis_user |-> <<>>, default_model |-> <<>>,
      model_revision |-> [some |-> FALSE, v |-> <<>>],
      hf_token |-> [some |-> FALSE, v |-> <<>>],
      default_embedding_model |-> [some |-> FALSE, v |-> <<>>],
      backend |-> [kind |-> "", command |-> <<>>] ]

NoInstances == <<>>
NoHashes == <<>>
IdleBuilder ==
    [ tenant_url |-> [some |-> FALSE, v |-> <<>>],
      tapis_user |-> [some |-> FALSE, v |-> <<>>],
      default_model |-> [some |-> FALSE, v |-> <<>>],
      model_revision |-> [some |-> FALSE, v |-> <<>>],
      hf_token |-> [some |-> FALSE, v |-> <<>>],
      default_embedding_model |-> [some |-> FALSE, v |-> <<>>],
      backend |-> [some |-> FALSE, v |-> <<>>] ]
NotBuilt == [ok |-> FALSE, err |-> "not called"]
NoParameterSet ==
    [ call |-> "none",
      result |-> [command |-> <<>>, params |-> <<>>, env |-> <<>>] ]
NoPodDeployment ==
    [ server |-> IdleServer, tapis_token |-> <<>>, options |-> <<>>,
      volume_id |-> <<>>, pod_id |-> <<>>,
      volume_info |-> [some |-> FALSE, v |-> <<>>],
      pod_info |-> [some |-> FALSE, v |-> <<>>] ]
NoResult == [ok |-> FALSE, reason |-> <<"not called">>]
NoPodsError == [kind |-> "none"]
NotMapped == [variant |-> "none", msg |-> <<>>]

b62_vars == <<b62_pc, b62_src, b62_text, b62_result>>
cli_vars == <<cli_pc, params, cli_args>>
ids_vars == <<make_server, deployments>>
hash_vars == <<instances, hashes>>
build_vars == <<builder, built>>
pset_vars == <<parameter_set>>
pod_vars == <<pod_deployment, pods, volumes, pod_op, api_calls, op_result>>
map_vars == <<pods_error, mapped_error>>
vars == <<b62_pc, b62_src, b62_text, b62_result, cli_pc, params, cli_args,
          make_server, deployments, instances, hashes, builder, built,
          parameter_set, pod_deployment, pods, volumes, pod_op, api_calls,
          op_result, pods_error, mapped_error>>

\* What an operation of one part leaves alone: the state of the other parts.
not_b62_vars == <<cli_vars, ids_vars, hash_vars, build_vars, pset_vars, pod_vars, map_vars>>
not_cli_vars == <<b62_vars, ids_vars, hash_vars, build_vars, pset_vars, pod_vars, map_vars>>
not_ids_vars == <<b62_vars, cli_vars, hash_vars, build_vars, pset_vars, pod_vars, map_vars>>
not_hash_vars == <<b62_vars, cli_vars, ids_vars, build_vars, pset_vars, pod_vars, map_vars>>
not_build_vars == <<b62_vars, cli_vars, ids_vars, hash_vars, pset_vars, pod_vars, map_vars>>
not_pset_ids_vars == <<b62_vars, cli_vars, hash_vars, build_vars, pod_vars, map_vars>>
not_pod_vars == <<b62_vars, cli_vars, ids_vars, hash_vars, build_vars, pset_vars, map_vars>>
not_map_vars == <<b62_vars, cli_vars, ids_vars, hash_vars, build_vars, pset_vars, pod_vars>>

\* String::as_bytes for the symbols of ALPHABET: the ASCII code of the
\* symbol at position i of "0-9A-Za-z".
AsciiCode(ch) ==
    LET i == CHOOSE k \in 1..ALPHABET_SIZE : ALPHABET[k] = ch
    IN  IF i <= 10 THEN 47 + i ELSE IF i <= 36 THEN 54 + i ELSE 60 + i

as_bytes(s) == [i \in 1..Len(s) |-> AsciiCode(s[i])]

(***************************************************************************)
(* base62.rs: length arithmetic.                                           *)
(***************************************************************************)
\* (x as f64 / BASE62_LOG2).ceil() as usize
CeilDivLog2(x) ==
    (x * BASE62_LOG2_DEN + BASE62_LOG2_NUM - 1) \div BASE62_LOG2_NUM

\* (x as f64 * BASE62_LOG2 / 8f64).floor() as usize
FloorMulLog2Div8(x) == (x * BASE62_LOG2_NUM) \div (8 * BASE62_LOG2_DEN)

encode_len(n) ==
    IF n = BASE256BLOCK_LEN
    THEN BASE62BLOCK_LEN
    ELSE LET n_block == n \div BASE256BLOCK_LEN
             rem == n % BASE256BLOCK_LEN
         IN  n_block * BASE62BLOCK_LEN
               + (IF rem > 0 THEN CeilDivLog2(rem * 8) ELSE 0)

decode_len(n) ==
    LET n_block == n \div BASE62BLOCK_LEN
        rem == n % BASE62BLOCK_LEN
    IN  n_block * BASE256BLOCK_LEN
          + (IF rem > 0 THEN FloorMulLog2Div8(rem) ELSE 0)

\* Called by decode on a non-empty input only, so n - 1 does not underflow.
is_valid_encoding_length(n) == FloorMulLog2Div8(n) # FloorMulLog2Div8(n - 1)

(***************************************************************************)
(* base62.rs: encode.  EncodeInner is the loop `for j in (0..cap).rev()`   *)
(* for one source byte: j is the 1-based position about to be visited      *)
(* (0 when the range is exhausted), carry and c are the loop's locals.  It *)
(* yields the buffer and the count c that becomes rs.  A carry left when   *)
(* the range is exhausted is dropped, as in the code.                      *)
(***************************************************************************)
\* EncodeInner without the test of c against rs: the loop stops as soon as
\* the carry is zero.
RECURSIVE EncodeInnerCarryOnly(_, _, _, _, _)
EncodeInnerCarryOnly(dst, j, carry, c, rs) ==
    IF j = 0 \/ carry = 0
    THEN [dst |-> dst, c |-> c]
    ELSE LET sum == carry + 256 * dst[j]
         IN  EncodeInnerCarryOnly([dst EXCEPT ![j] = sum % ALPHABET_SIZE], j - 1,
                                  sum \div ALPHABET_SIZE, c + 1, rs)

RECURSIVE EncodeInner(_, _, _, _, _)
EncodeInner(dst, j, carry, c, rs) ==
    IF j = 0 \/ (carry = 0 /\ c >= rs)
    THEN [dst |-> dst, c |-> c]
    ELSE LET sum == carry + 256 * dst[j]
         IN  EncodeInner([dst EXCEPT ![j] = sum % ALPHABET_SIZE], j - 1,
                         sum \div ALPHABET_SIZE, c + 1, rs)

\* The body of `for b in src.iter().copied()` for the byte b: st holds the
\* buffer dst and rs.
EncodeByte(st, b) ==
    LET r == EncodeInner(st.dst, Len(st.dst), b, 0, st.rs)
    IN  [dst |-> r.dst, rs |-> r.c]

\* The loop `for b in src.iter().copied()` over the source positions lo..hi,
\* in ascending order.  The range is halved only to keep the evaluation
\* depth logarithmic; the bytes are still visited one by one, first to last.
\* The test of left.rs (a usize, never negative) makes the evaluation of the
\* left half complete before the right half starts.
RECURSIVE EncodeOuter(_, _, _, _)
EncodeOuter(src, lo, hi, st) ==
    IF lo > hi THEN st
    ELSE IF lo = hi THEN EncodeByte(st, src[lo])
    ELSE LET mid == (lo + hi) \div 2
             left == EncodeOuter(src, lo, mid, st)
         IN  IF left.rs < 0 THEN left ELSE EncodeOuter(src, mid + 1, hi, left)

encode(src) ==
    IF src = <<>>
    THEN <<>>
    ELSE LET cap == encode_len(Len(src))
             dst == EncodeOuter(src, 1, Len(src), [dst |-> Repeat(0, cap), rs |-> 0]).dst
         IN  [i \in 1..cap |-> ALPHABET[dst[i] + 1]]

(***************************************************************************)
(* base62.rs: decode.  The result is Ok(bytes) or Err(BadInput{reason}).   *)
(***************************************************************************)
Ok(v) == [ok |-> TRUE, value |-> v]
BadInput(reason) == [ok |-> FALSE, reason |-> reason]

RECURSIVE DecodeInner(_, _, _, _, _)
DecodeInner(dst, j, carry, c, rs) ==
    IF j = 0 \/ (carry = 0 /\ c >= rs)
    THEN [dst |-> dst, c |-> c]
    ELSE LET sum == carry + ALPHABET_SIZE * dst[j]
         IN  DecodeInner([dst EXCEPT ![j] = sum % 256], j - 1,
                         sum \div 256, c + 1, rs)

\* The body of `for b in src.iter().copied()` for the byte b: st holds the
\* buffer dst, rs and the error decode has returned with, if any (the
\* lookup of 255 in ALPHABET_VERT returns Err at once; later bytes are then
\* not looked at).
NoError == <<>>
\* DecodeByte without the test for 255: the table's marker of a byte
\* outside the alphabet is taken for a digit.
DecodeByteUnchecked(st, b) ==
    IF st.err # NoError THEN st
    ELSE LET r == DecodeInner(st.dst, Len(st.dst), ALPHABET_VERT[b + 1], 0, st.rs)
         IN  [dst |-> r.dst, rs |-> r.c, err |-> NoError]

DecodeByte(st, b) ==
    IF st.err # NoError THEN st
    ELSE LET carry == ALPHABET_VERT[b + 1]
         IN  IF carry = 255
             THEN [st EXCEPT !.err = <<"bad input", b>>]
             ELSE LET r == DecodeInner(st.dst, Len(st.dst), carry, 0, st.rs)
                  IN  [dst |-> r.dst, rs |-> r.c, err |-> NoError]

\* The loop over the source positions lo..hi in ascending order (halved as
\* in EncodeOuter); an error in the left half ends the loop.
RECURSIVE DecodeOuter(_, _, _, _)
DecodeOuter(src, lo, hi, st) ==
    IF lo > hi THEN st
    ELSE IF lo = hi THEN DecodeByte(st, src[lo])
    ELSE LET mid == (lo + hi) \div 2
             left == DecodeOuter(src, lo, mid, st)
         IN  IF left.err # NoError THEN left ELSE DecodeOuter(src, mid + 1, hi, left)

decode(src) ==
    IF src = <<>>
    THEN Ok(<<>>)
    ELSE IF ~is_valid_encoding_length(Len(src))
    THEN BadInput(<<"invalid input length">>)
    ELSE LET cap == decode_len(Len(src))
             st == DecodeOuter(src, 1, Len(src),
                               [dst |-> Repeat(0, cap), rs |-> 0, err |-> NoError])
         IN  IF st.err # NoError THEN BadInput(st.err) ELSE Ok(st.dst)

(***************************************************************************)
(* Inputs of the codec.                                                    *)
(***************************************************************************)
\* Byte values the inputs are built from: zero, one, the values around the
\* alphabet size, and the largest byte.
ByteVals == {0, 1, 61, 62, 255}
\* Source inputs are k zero bytes followed by a tail of at most MaxTail
\* bytes, or n copies of one byte.
MaxZeroBytes == 228
MaxTail == 2
MaxFill == 34
SrcInputs ==
    { Repeat(0, k) \o t : k \in 0..MaxZeroBytes, t \in SeqsUpTo(ByteVals, MaxTail) }
      \cup { Repeat(v, n) : v \in ByteVals, n \in 0..MaxFill }

\* Bytes handed to decode directly: '0', '1', 'z', and two bytes outside the
\* alphabet ('-' and 0xff).
SymVals == {48, 49, 122, 45, 255}
\* Raw inputs are k '0' symbols followed by a tail, or a head followed by k
\* '0' symbols, or any short string.
MaxRawZeros == 306
MaxRawTail == 2
MaxRawPad == 6
RawInputs ==
    { Repeat(48, k) \o t : k \in 0..MaxRawZeros, t \in SeqsUpTo(SymVals, MaxRawTail) }
      \cup { t \o Repeat(48, k) : k \in 0..MaxRawPad, t \in SeqsUpTo(SymVals, MaxRawTail) }

(***************************************************************************)
(* The codec as a state machine: a caller holds a byte sequence, encodes   *)
(* it and decodes the text again (the round trip of check_bytes), or hands *)
(* a text of its own to decode.                                            *)
(***************************************************************************)
NotCalled == [ok |-> FALSE, reason |-> <<"not called">>]

InitCodec ==
    /\ b62_result = NotCalled
    /\ \/ /\ b62_pc = "src"
          /\ b62_src \in SrcInputs
          /\ b62_text = <<>>
       \/ /\ b62_pc = "raw"
          /\ b62_src = <<>>
          /\ b62_text \in RawInputs
    /\ cli_pc = "idle" /\ params = EmptyMap /\ cli_args = <<>>
    /\ make_server = IdleServer /\ deployments = NoDeployments
    /\ instances = NoInstances /\ hashes = NoHashes
    /\ builder = IdleBuilder /\ built = NotBuilt
    /\ parameter_set = NoParameterSet
    /\ pod_deployment = NoPodDeployment /\ pods = {} /\ volumes = {}
    /\ pod_op = "none" /\ api_calls = <<>> /\ op_result = NoResult
    /\ pods_error = NoPodsError /\ mapped_error = NotMapped

\* let e = encode(plain); e.as_bytes()
Encode ==
    /\ b62_pc = "src"
    /\ b62_text' = as_bytes(encode(b62_src))
    /\ b62_pc' = "encoded"
    /\ UNCHANGED <<b62_src, b62_result>>
    /\ UNCHANGED not_b62_vars

\* decode(text), on the text encode returned or on the caller's own text
Decode ==
    /\ b62_pc \in {"encoded", "raw"}
    /\ b62_result' = decode(b62_text)
    /\ b62_pc' = IF b62_pc = "encoded" THEN "roundtrip" ELSE "decoded"
    /\ UNCHANGED <<b62_src, b62_text>>
    /\ UNCHANGED not_b62_vars

(***************************************************************************)
(* backend.rs: BackendParameterSet.params is a HashMap<String, Value>.  A  *)
(* serde_json Value is one of Null, Bool, Number, String (the parameter    *)
(* builders insert &str, u16, u32 and bool; arrays and objects are not     *)
(* modelled).                                                              *)
(***************************************************************************)
NullValue == [t |-> "Null", b |-> FALSE, n |-> 0, s |-> <<>>]
BoolValue(b) == [t |-> "Bool", b |-> b, n |-> 0, s |-> <<>>]
NumberValue(n) == [t |-> "Number", b |-> FALSE, n |-> n, s |-> <<>>]
StringValue(s) == [t |-> "String", b |-> FALSE, n |-> 0, s |-> s]

\* Characters with a special role.
Quote == "\""
Backslash == "\\"
Newline == "\n"

DecimalDigit == <<"0", "1", "2", "3", "4", "5", "6", "7", "8", "9">>

\* The decimal text of an unsigned integer, as serde_json writes a Number.
RECURSIVE DecimalText(_)
DecimalText(n) ==
    IF n < 10
    THEN <<DecimalDigit[n + 1]>>
    ELSE DecimalText(n \div 10) \o <<DecimalDigit[(n % 10) + 1]>>

\* serde_json's escape of one character inside a JSON string.
JsonEscapeChar(ch) ==
    IF ch = Quote THEN <<Backslash, Quote>>
    ELSE IF ch = Backslash THEN <<Backslash, Backslash>>
    ELSE IF ch = Newline THEN <<Backslash, "n">>
    ELSE <<ch>>

RECURSIVE JsonEscape(_)
JsonEscape(s) ==
    IF s = <<>> THEN <<>> ELSE JsonEscapeChar(Head(s)) \o JsonEscape(Tail(s))

\* serde_json::to_string(v) for a value that is not Bool or Null.
json_to_string(v) ==
    IF v.t = "String"
    THEN <<Quote>> \o JsonEscape(v.s) \o <<Quote>>
    ELSE DecimalText(v.n)

\* str::replace("\\\"", "\""): every non-overlapping occurrence of the two
\* characters backslash, quote, found from left to right, becomes a quote.
RECURSIVE ReplaceEscapedQuote(_)
ReplaceEscapedQuote(s) ==
    IF s = <<>> THEN <<>>
    ELSE IF Len(s) >= 2 /\ s[1] = Backslash /\ s[2] = Quote
    THEN <<Quote>> \o ReplaceEscapedQuote(SubSeq(s, 3, Len(s)))
    ELSE <<Head(s)>> \o ReplaceEscapedQuote(Tail(s))

\* key.replace('_', "-")
ReplaceUnderscore(key) ==
    [i \in 1..Len(key) |-> IF key[i] = "_" THEN "-" ELSE key[i]]

\* format!("--{}", key.replace('_', "-"))
Flag(key) == <<"-", "-">> \o ReplaceUnderscore(key)

FLEXSERV_TOKEN_KEY ==
    <<"f", "l", "e", "x", "s", "e", "r", "v", "-", "t", "o", "k", "e", "n">>
DEFAULT_MODEL_KEY ==
    <<"d", "e", "f", "a", "u", "l", "t", "-", "m", "o", "d", "e", "l">>

\* CliTokens without the arm for Null: a null value is written like any
\* other value, as the flag and the text "null".
CliTokensNullAsText(key, value) ==
    IF key = FLEXSERV_TOKEN_KEY \/ key = DEFAULT_MODEL_KEY
    THEN <<>>
    ELSE IF value.t = "Bool"
    THEN (IF value.b THEN <<Flag(key)>> ELSE <<>>)
    ELSE IF value.t = "Null"
    THEN <<Flag(key), <<"n", "u", "l", "l">> >>
    ELSE LET s == json_to_string(value)
             val == IF Len(s) >= 2 /\ s[1] = Quote /\ s[Len(s)] = Quote
                    THEN ReplaceEscapedQuote(SubSeq(s, 2, Len(s) - 1))
                    ELSE s
         IN  <<Flag(key), val>>

\* CliTokens that skips flexserv-token only, not default-model.
CliTokensTokenKeyOnly(key, value) ==
    IF key = FLEXSERV_TOKEN_KEY
    THEN <<>>
    ELSE IF value.t = "Bool"
    THEN (IF value.b THEN <<Flag(key)>> ELSE <<>>)
    ELSE IF value.t = "Null"
    THEN <<>>
    ELSE LET s == json_to_string(value)
             val == IF Len(s) >= 2 /\ s[1] = Quote /\ s[Len(s)] = Quote
                    THEN ReplaceEscapedQuote(SubSeq(s, 2, Len(s) - 1))
                    ELSE s
         IN  <<Flag(key), val>>

\* The body of `for (key, value) in &self.params`: the tokens pushed to out
\* for one entry.
CliTokens(key, value) ==
    IF key = FLEXSERV_TOKEN_KEY \/ key = DEFAULT_MODEL_KEY
    THEN <<>>
    ELSE IF value.t = "Bool"
    THEN (IF value.b THEN <<Flag(key)>> ELSE <<>>)
    ELSE IF value.t = "Null"
    THEN <<>>
    ELSE LET s == json_to_string(value)
             val == IF Len(s) >= 2 /\ s[1] = Quote /\ s[Len(s)] = Quote
                    THEN ReplaceEscapedQuote(SubSeq(s, 2, Len(s) - 1))
                    ELSE s
         IN  <<Flag(key), val>>

\* to_cli_args on the parameter mapping `map` when the HashMap iterator
\* yields the keys in the order `order`.
RECURSIVE to_cli_args(_, _)
to_cli_args(map, order) ==
    IF order = <<>>
    THEN <<>>
    ELSE CliTokens(Head(order), map[Head(order)])
           \o to_cli_args(map, Tail(order))

\* The orders in which a HashMap with the key set K may be iterated: the
\* order is unspecified (it depends on the map's random hasher state), so
\* every arrangement of the keys is possible.
IterationOrders(K) ==
    { o \in [1..Cardinality(K) -> K] : \A k \in K : \E i \in DOMAIN o : o[i] = k }

(***************************************************************************)
(* Parameter sets as a state machine: BackendParameterSet::new, then       *)
(* insert_param calls (directly or through a builder's setters), then      *)
(* to_cli_args on the finished set.                                        *)
(***************************************************************************)
ParamKeys ==
    { <<"a">>, <<"z">>,
      <<"e", "n", "a", "b", "l", "e", "_", "c", "o", "r", "s">>,
      <<"f", "l", "e", "x", "s", "e", "r", "v", "_", "t", "o", "k", "e", "n">>,
      FLEXSERV_TOKEN_KEY, DEFAULT_MODEL_KEY }

ParamValues ==
    { NullValue, BoolValue(TRUE), BoolValue(FALSE),
      NumberValue(1), NumberValue(2),
      StringValue(<<"s">>),
      StringValue(<<"a", Quote, "b">>),
      StringValue(<<"a", Backslash, "b">>),
      StringValue(<<Newline>>) }

\* The largest number of entries a parameter set gets.
MaxParams == 3

\* BackendParameterSet::new(command): no parameters yet.
InitCli ==
    /\ cli_pc = "building"
    /\ params = EmptyMap
    /\ cli_args = <<>>
    /\ b62_pc = "idle" /\ b62_src = <<>> /\ b62_text = <<>> /\ b62_result = NotCalled
    /\ make_server = IdleServer /\ deployments = NoDeployments
    /\ instances = NoInstances /\ hashes = NoHashes
    /\ builder = IdleBuilder /\ built = NotBuilt
    /\ parameter_set = NoParameterSet
    /\ pod_deployment = NoPodDeployment /\ pods = {} /\ volumes = {}
    /\ pod_op = "none" /\ api_calls = <<>> /\ op_result = NoResult
    /\ pods_error = NoPodsError /\ mapped_error = NotMapped

\* self.params.insert(key, serde_json::to_value(value).unwrap())
insert_param(key, value) ==
    /\ cli_pc = "building"
    /\ key \in DOMAIN params \/ Cardinality(DOMAIN params) < MaxParams
    /\ params' = [k \in DOMAIN params \cup {key} |->
                     IF k = key THEN value ELSE params[k]]
    /\ UNCHANGED <<cli_pc, cli_args>>
    /\ UNCHANGED not_cli_vars

InsertParam == \E key \in ParamKeys, value \in ParamValues : insert_param(key, value)

\* let args = params.to_cli_args();
ToCliArgs ==
    /\ cli_pc = "building"
    /\ \E order \in IterationOrders(DOMAIN params) :
          cli_args' = to_cli_args(params, order)
    /\ cli_pc' = "serialised"
    /\ UNCHANGED params
    /\ UNCHANGED not_cli_vars

(***************************************************************************)
(* server.rs: FlexServInstance and deployment_hash.                        *)
(***************************************************************************)
None == [some |-> FALSE, v |-> <<>>]
Some(x) == [some |-> TRUE, v |-> x]

\* The characters of "https://" and of "http://".
HTTPS == <<"h", "t", "t", "p", "s", ":", "/", "/">>
HTTP == <<"h", "t", "t", "p", ":", "/", "/">>

\* The text of a String, for formatting: its characters, concatenated.
RECURSIVE Str(_)
Str(chars) == IF chars = <<>> THEN "" ELSE Head(chars) \o Str(Tail(chars))

\* Backend values: the variant and its command.
Backends ==
    { [kind |-> "Transformers", command |-> <<"python">>],
      [kind |-> "VLlm", command |-> <<"python">>],
      [kind |-> "Transformers", command |-> <<"python", "-u">>] }

\* The instances FlexServInstance::new returns for the callers' arguments
\* (tenant_url already normalised to carry a scheme).
Servers ==
    [ tenant_url : {HTTPS \o <<"t">>, HTTPS \o <<"t", "-", "x">>},
      tapis_user : {<<"a">>, <<"b">>},
      default_model : {<<"m">>, <<"x", "-", "m">>},
      model_revision : {None},
      hf_token : {None},
      default_embedding_model : {None},
      backend : Backends ]

\* format!("{:?}", command) for a Vec<String> of plain words.
RECURSIVE DebugStrings(_)
DebugStrings(cmd) ==
    IF cmd = <<>> THEN ""
    ELSE IF Len(cmd) = 1 THEN "\"" \o cmd[1] \o "\""
    ELSE "\"" \o cmd[1] \o "\", " \o DebugStrings(Tail(cmd))

\* format!("{:?}", backend): the derived Debug of the enum variant.
DebugBackend(backend) ==
    backend.kind \o " { command: [" \o DebugStrings(backend.command) \o "] }"

\* The fingerprint without the user.
config_string_without_user(self) ==
    "@" \o Str(self.tenant_url) \o "-"
      \o Str(self.default_model) \o "-" \o DebugBackend(self.backend)

\* The fingerprint with hf_token (empty when absent) where the user belongs.
config_string_hf_token_for_user(self) ==
    Str(IF self.hf_token.some THEN self.hf_token.v ELSE <<>>) \o "@"
      \o Str(self.tenant_url) \o "-"
      \o Str(self.default_model) \o "-" \o DebugBackend(self.backend)

\* format!("{}@{}-{}-{:?}", tapis_user, tenant_url, default_model, backend)
config_string(self) ==
    Str(self.tapis_user) \o "@" \o Str(self.tenant_url) \o "-"
      \o Str(self.default_model) \o "-" \o DebugBackend(self.backend)

\* Sha256::digest (crate sha2) is not computed here: the table holds the
\* SHA-256 digest of the UTF-8 bytes of every fingerprint string that the
\* instances of the model have.
SHA256_TABLE ==
    ( "@--Transformers { command: [\"python\"] }" :>
        << 208, 246, 182, 86, 89, 84, 71, 26, 183, 185, 222, 199, 200, 51, 250, 56,
           74, 162, 62, 155, 117, 0, 232, 7, 255, 117, 118, 31, 191, 35, 39, 197 >> @@
      "@--VLlm { command: [\"python\"] }" :>
        << 77, 90, 63, 43, 24, 7, 67, 195, 244, 232, 87, 167, 114, 34, 188, 65,
           3, 44, 41, 125, 152, 143, 118, 134, 71, 191, 178, 250, 75, 35, 72, 196 >> @@
      "@--Transformers { command: [\"python\", \"-u\"] }" :>
        << 136, 209, 202, 70, 29, 138, 155, 208, 206, 255, 25, 243, 206, 254, 45, 144,
           73, 189, 40, 106, 143, 128, 128, 79, 162, 110, 161, 239, 219, 14, 129, 204 >> @@
      "@--Transformers { command: [] }" :>
        << 24, 238, 180, 183, 100, 61, 157, 35, 26, 171, 16, 113, 35, 109, 196, 223,
           117, 213, 57, 223, 106, 128, 217, 183, 237, 240, 197, 247, 58, 215, 6, 147 >> @@
      "@-m-Transformers { command: [\"python\"] }" :>
        << 5, 23, 188, 22, 83, 57, 174, 255, 84, 118, 176, 95, 84, 161, 137, 72,
           46, 242, 150, 196, 209, 104, 87, 138, 243, 41, 207, 218, 118, 183, 219, 155 >> @@
      "@-m-VLlm { command: [\"python\"] }" :>
        << 52, 135, 40, 152, 2, 237, 224, 14, 173, 143, 233, 14, 47, 132, 195, 73,
           103, 252, 139, 2, 151, 16, 202, 217, 255, 85, 239, 130, 73, 229, 212, 255 >> @@
      "@-m-Transformers { command: [\"python\", \"-u\"] }" :>
        << 141, 209, 161, 228, 112, 60, 254, 191, 1, 105, 103, 12, 20, 16, 239, 177,
           164, 56, 253, 53, 91, 31, 115, 25, 192, 86, 134, 220, 44, 238, 245, 200 >> @@
      "@-m-Transformers { command: [] }" :>
        << 103, 166, 24, 192, 148, 86, 49, 68, 156, 248, 157, 214, 57, 64, 70, 131,
           153, 59, 180, 168, 109, 221, 230, 229, 115, 132, 2, 206, 67, 86, 101, 100 >> @@
      "@-x-m-Transformers { command: [\"python\"] }" :>
        << 78, 102, 197, 203, 253, 10, 225, 160, 141, 119, 21, 126, 137, 179, 136, 53,
           174, 112, 121, 192, 130, 76, 175, 1, 113, 207, 118, 160, 176, 73, 174, 203 >> @@
      "@-x-m-VLlm { command: [\"python\"] }" :>
        << 195, 236, 28, 181, 179, 127, 19, 213, 50, 160, 48, 130, 51, 203, 135, 73,
           60, 41, 16, 88, 135, 243, 93, 156, 161, 217, 149, 114, 130, 9, 224, 127 >> @@
      "@-x-m-Transformers { command: [\"python\", \"-u\"] }" :>
        << 195, 226, 13, 15, 63, 31, 149, 102, 197, 19, 109, 6, 2, 38, 103, 178,
           155, 120, 18, 120, 157, 29, 71, 217, 166, 127, 82, 55, 215, 125, 210, 131 >> @@
      "@-x-m-Transformers { command: [] }" :>
        << 202, 229, 140, 57, 210, 82, 66, 243, 150, 61, 116, 148, 73, 167, 35, 150,
           157, 245, 176, 27, 126, 133, 110, 116, 215, 25, 188, 132, 149, 62, 29, 17 >> @@
      "@https://t--Transformers { command: [\"python\"] }" :>
        << 199, 192, 165, 45, 113, 237, 86, 119, 134, 178, 105, 9, 77, 162, 232, 34,
           201, 196, 93, 77, 227, 236, 134, 239, 130, 82, 153, 8, 238, 52, 81, 48 >> @@
      "@https://t--VLlm { command: [\"python\"] }" :>
        << 136, 237, 196, 77, 34, 106, 131, 21, 200, 147, 238, 186, 144, 243, 99, 161,
           74, 219, 40, 231, 246, 177, 118, 66, 112, 7, 49, 26, 54, 124, 174, 233 >> @@
      "@https://t--Transformers { command: [\"python\", \"-u\"] }" :>
        << 164, 140, 9, 215, 62, 106, 249, 174, 71, 128, 243, 94, 135, 189, 152, 164,
           188, 13, 8, 206, 178, 124, 123, 63, 250, 51, 50, 20, 43, 242, 215, 236 >> @@
      "@https://t--Transformers { command: [] }" :>
        << 182, 109, 75, 117, 169, 176, 57, 24, 36, 179, 225, 88, 79, 167, 4, 249,
           136, 86, 5, 38, 83, 173, 23, 49, 75, 149, 113, 59, 240, 51, 70, 251 >> @@
      "@https://t-m-Transformers { command: [\"python\"] }" :>
        << 175, 19, 124, 95, 3, 241, 91, 99, 61, 202, 212, 188, 212, 87, 177, 132,
           184, 182, 201, 85, 32, 190, 150, 221, 131, 40, 25, 203, 79, 83, 239, 228 >> @@
      "@https://t-m-VLlm { command: [\"python\"] }" :>
        << 169, 4, 150, 238, 207, 132, 147, 181, 212, 176, 139, 168, 235, 197, 165, 216,
           48, 191, 26, 255, 81, 87, 174, 29, 151, 138, 242, 47, 84, 234, 43, 198 >> @@
      "@https://t-m-Transformers { command: [\"python\", \"-u\"] }" :>
        << 154, 110, 18, 158, 117, 25, 31, 110, 208, 193, 193, 225, 101, 13, 153, 114,
           173, 222, 179, 46, 159, 176, 185, 33, 159, 25, 16, 0, 90, 84, 80, 58 >> @@
      "@https://t-m-Transformers { command: [] }" :>
        << 138, 76, 45, 114, 19, 19, 196, 253, 42, 8, 167, 94, 103, 159, 100, 165,
           187, 62, 105, 44, 41, 235, 110, 154, 57, 209, 246, 136, 71, 205, 132, 195 >> @@
      "@https://t-x-m-Transformers { command: [\"python\"] }" :>
        << 59, 49, 251, 96, 52, 252, 158, 174, 99, 112, 239, 19, 252, 23, 103, 73,
           226, 188, 250, 69, 106, 233, 108, 128, 134, 223, 188, 149, 199, 104, 136, 87 >> @@
      "@https://t-x-m-VLlm { command: [\"python\"] }" :>
        << 254, 19, 223, 231, 243, 131, 57, 12, 13, 154, 169, 74, 201, 173, 191, 9,
           60, 98, 199, 172, 188, 185, 40, 86, 88, 218, 130, 51, 175, 150, 242, 241 >> @@
      "@https://t-x-m-Transformers { command: [\"python\", \"-u\"] }" :>
        << 230, 123, 228, 227, 10, 173, 253, 225, 100, 138, 19, 238, 158, 222, 233, 101,
           89, 18, 135, 195, 48, 36, 154, 63, 125, 202, 110, 54, 115, 90, 25, 202 >> @@
      "@https://t-x-m-Transformers { command: [] }" :>
        << 123, 48, 94, 132, 73, 208, 139, 165, 57, 131, 118, 6, 17, 216, 205, 139,
           56, 229, 127, 142, 129, 249, 29, 217, 217, 131, 112, 43, 197, 26, 40, 226 >> @@
      "@https://t-x--Transformers { command: [\"python\"] }" :>
        << 162, 158, 164, 48, 100, 33, 44, 188, 64, 245, 81, 86, 50, 94, 130, 61,
           243, 210, 5, 148, 76, 74, 53, 10, 39, 21, 11, 28, 190, 237, 143, 73 >> @@
      "@https://t-x--VLlm { command: [\"python\"] }" :>
        << 181, 81, 106, 210, 60, 120, 113, 189, 182, 230, 60, 41, 195, 10, 134, 176,
           6, 136, 48, 84, 180, 196, 83, 115, 186, 19, 128, 60, 129, 151, 55, 153 >> @@
      "@https://t-x--Transformers { command: [\"python\", \"-u\"] }" :>
        << 111, 231, 43, 210, 134, 251, 226, 92, 172, 123, 171, 227, 174, 209, 11, 79,
           6, 175, 122, 133, 145, 82, 193, 59, 92, 28, 253, 65, 187, 173, 244, 170 >> @@
      "@https://t-x--Transformers { command: [] }" :>
        << 103, 59, 10, 198, 66, 235, 20, 68, 29, 3, 6, 168, 156, 215, 104, 15,
           237, 114, 238, 9, 169, 89, 169, 9, 152, 146, 152, 10, 78, 183, 232, 208 >> @@
      "@https://t-x-m-Transformers { command: [\"python\"] }" :>
        << 59, 49, 251, 96, 52, 252, 158, 174, 99, 112, 239, 19, 252, 23, 103, 73,
           226, 188, 250, 69, 106, 233, 108, 128, 134, 223, 188, 149, 199, 104, 136, 87 >> @@
      "@https://t-x-m-VLlm { command: [\"python\"] }" :>
        << 254, 19, 223, 231, 243, 131, 57, 12, 13, 154, 169, 74, 201, 173, 191, 9,
           60, 98, 199, 172, 188, 185, 40, 86, 88, 218, 130, 51, 175, 150, 242, 241 >> @@
      "@https://t-x-m-Transformers { command: [\"python\", \"-u\"] }" :>
        << 230, 123, 228, 227, 10, 173, 253, 225, 100, 138, 19, 238, 158, 222, 233, 101,
           89, 18, 135, 195, 48, 36, 154, 63, 125, 202, 110, 54, 115, 90, 25, 202 >> @@
      "@https://t-x-m-Transformers { command: [] }" :>
        << 123, 48, 94, 132, 73, 208, 139, 165, 57, 131, 118, 6, 17, 216, 205, 139,
           56, 229, 127, 142, 129, 249, 29, 217, 217, 131, 112, 43, 197, 26, 40, 226 >> @@
      "@https://t-x-x-m-Transformers { command: [\"python\"] }" :>
        << 184, 158, 214, 234, 95, 221, 125, 110, 153, 83, 134, 151, 176, 184, 110, 163,
           220, 71, 20, 14, 7, 50, 237, 195, 192, 129, 100, 207, 128, 83, 72, 107 >> @@
      "@https://t-x-x-m-VLlm { command: [\"python\"] }" :>
        << 68, 148, 220, 1, 106, 161, 182, 20, 181, 122, 129, 148, 76, 225, 127, 96,
           105, 188, 179, 238, 89, 175, 247, 176, 225, 16, 231, 70, 250, 86, 24, 112 >> @@
      "@https://t-x-x-m-Transformers { command: [\"python\", \"-u\"] }" :>
        << 54, 204, 214, 120, 62, 146, 90, 220, 166, 184, 140, 47, 230, 13, 19, 195,
           188, 92, 61, 191, 235, 191, 155, 45, 227, 15, 160, 142, 58, 10, 95, 179 >> @@
      "@https://t-x-x-m-Transformers { command: [] }" :>
        << 21, 226, 151, 211, 74, 112, 111, 56, 153, 170, 240, 209, 167, 132, 87, 38,
           90, 124, 234, 218, 252, 214, 138, 213, 211, 240, 240, 123, 250, 71, 212, 63 >> @@
      "a@--Transformers { command: [\"python\"] }" :>
        << 238, 242, 235, 104, 137, 185, 165, 175, 217, 233, 68, 33, 163, 205, 142, 124,
           183, 19, 201, 243, 110, 199, 215, 121, 101, 216, 162, 221, 34, 131, 112, 113 >> @@
      "a@--VLlm { command: [\"python\"] }" :>
        << 247, 82, 203, 47, 195, 172, 49, 223, 210, 51, 59, 37, 32, 17, 14, 125,
           209, 27, 226, 108, 147, 49, 100, 251, 188, 29, 253, 127, 151, 81, 230, 149 >> @@
      "a@--Transformers { command: [\"python\", \"-u\"] }" :>
        << 49, 100, 166, 123, 5, 38, 220, 179, 31, 255, 200, 105, 9, 194, 120, 141,
           48, 86, 155, 51, 233, 139, 168, 29, 30, 230, 111, 113, 249, 102, 228, 209 >> @@
      "a@--Transformers { command: [] }" :>
        << 107, 131, 168, 58, 223, 242, 149, 43, 202, 74, 118, 15, 167, 86, 69, 245,
           72, 211, 186, 52, 15, 133, 249, 81, 94, 3, 9, 90, 158, 51, 218, 9 >> @@
      "a@-m-Transformers { command: [\"python\"] }" :>
        << 150, 217, 92, 30, 162, 193, 127, 177, 132, 209, 71, 188, 140, 96, 92, 174,
           191, 2, 135, 231, 195, 155, 42, 58, 134, 179, 239, 54, 83, 0, 42, 108 >> @@
      "a@-m-VLlm { command: [\"python\"] }" :>
        << 149, 17, 157, 146, 83, 133, 161, 27, 97, 127, 177, 232, 49, 130, 223, 238,
           244, 223, 245, 164, 179, 171, 241, 54, 246, 8, 214, 246, 174, 19, 11, 69 >> @@
      "a@-m-Transformers { command: [\"python\", \"-u\"] }" :>
        << 128, 61, 9, 223, 123, 87, 139, 152, 15, 132, 251, 177, 85, 244, 61, 158,
           1, 107, 38, 227, 251, 179, 1, 8, 226, 64, 152, 188, 156, 235, 201, 235 >> @@
      "a@-m-Transformers { command: [] }" :>
        << 199, 84, 198, 38, 171, 58, 165, 0, 179, 145, 181, 228, 76, 65, 44, 118,
           126, 11, 172, 108, 193, 227, 170, 27, 45, 157, 240, 233, 24, 61, 218, 81 >> @@
      "a@-x-m-Transformers { command: [\"python\"] }" :>
        << 66, 4, 61, 155, 190, 113, 12, 185, 63, 31, 203, 169, 58, 150, 247, 74,
           106, 233, 116, 208, 68, 67, 148, 30, 18, 73, 28, 244, 177, 178, 168, 120 >> @@
      "a@-x-m-VLlm { command: [\"python\"] }" :>
        << 244, 249, 81, 214, 187, 13, 153, 223, 223, 252, 194, 127, 231, 96, 149, 232,
           31, 14, 205, 183, 101, 32, 56, 30, 216, 154, 84, 46, 238, 196, 186, 239 >> @@
      "a@-x-m-Transformers { command: [\"python\", \"-u\"] }" :>
        << 199, 250, 234, 25, 146, 181, 206, 234, 9, 102, 12, 9, 213, 84, 78, 173,
           242, 151, 212, 46, 2, 49, 124, 189, 157, 254, 25, 34, 198, 34, 224, 121 >> @@
      "a@-x-m-Transformers { command: [] }" :>
        << 174, 208, 230, 211, 238, 101, 217, 129, 62, 90, 122, 114, 231, 247, 220, 220,
           196, 3, 171, 178, 200, 245, 87, 247, 96, 12, 34, 223, 235, 98, 23, 217 >> @@
      "a@https://t--Transformers { command: [\"python\"] }" :>
        << 148, 162, 7, 138, 220, 59, 231, 156, 195, 251, 40, 154, 122, 37, 251, 110,
           126, 26, 21, 43, 43, 134, 17, 107, 42, 183, 214, 83, 68, 162, 96, 94 >> @@
      "a@https://t--VLlm { command: [\"python\"] }" :>
        << 3, 113, 255, 43, 23, 25, 173, 201, 101, 236, 137, 195, 17, 30, 179, 206,
           93, 68, 197, 237, 42, 122, 64, 101, 202, 216, 7, 58, 25, 50, 113, 201 >> @@
      "a@https://t--Transformers { command: [\"python\", \"-u\"] }" :>
        << 210, 18, 49, 106, 46, 24, 181, 254, 77, 161, 170, 195, 129, 90, 62, 22,
           195, 201, 56, 44, 94, 233, 139, 131, 70, 142, 6, 146, 127, 73, 123, 194 >> @@
      "a@https://t--Transformers { command: [] }" :>
        << 226, 69, 12, 107, 33, 161, 100, 155, 205, 169, 233, 244, 17, 83, 99, 107,
           174, 102, 83, 202, 78, 119, 27, 229, 211, 28, 118, 28, 48, 111, 201, 78 >> @@
      "a@https://t-m-Transformers { command: [\"python\"] }" :>
        << 57, 8, 68, 122, 205, 70, 227, 20, 13, 173, 111, 197, 65, 30, 16, 28,
           238, 21, 11, 85, 149, 229, 56, 103, 169, 207, 82, 31, 227, 249, 31, 113 >> @@
      "a@https://t-m-VLlm { command: [\"python\"] }" :>
        << 240, 244, 23, 33, 11, 170, 25, 174, 1, 236, 41, 69, 204, 215, 129, 252,
           212, 14, 200, 172, 211, 220, 102, 192, 204, 219, 185, 245, 3, 146, 94, 25 >> @@
      "a@https://t-m-Transformers { command: [\"python\", \"-u\"] }" :>
        << 96, 229, 145, 212, 73, 155, 77, 227, 147, 225, 157, 205, 193, 149, 20, 53,
           132, 210, 233, 210, 67, 123, 41, 55, 184, 246, 161, 33, 24, 30, 184, 243 >> @@
      "a@https://t-m-Transformers { command: [] }" :>
        << 153, 252, 161, 191, 100, 137, 251, 247, 249, 191, 82, 172, 128, 133, 221, 130,
           152, 224, 145, 169, 159, 194, 65, 201, 58, 77, 51, 203, 255, 153, 75, 124 >> @@
      "a@https://t-x-m-Transformers { command: [\"python\"] }" :>
        << 151, 81, 30, 150, 124, 126, 114, 9, 238, 237, 222, 93, 245, 191, 203, 46,
           139, 208, 146, 150, 220, 79, 26, 243, 51, 153, 240, 51, 254, 37, 220, 100 >> @@
      "a@https://t-x-m-VLlm { command: [\"python\"] }" :>
        << 104, 159, 97, 220, 236, 255, 202, 216, 93, 170, 84, 239, 153, 139, 182, 164,
           139, 60, 75, 157, 245, 135, 51, 244, 108, 37, 4, 188, 119, 133, 39, 61 >> @@
      "a@https://t-x-m-Transformers { command: [\"python\", \"-u\"] }" :>
        << 148, 251, 167, 225, 171, 20, 201, 208, 110, 171, 18, 237, 77, 187, 63, 89,
           45, 243, 237, 29, 31, 129, 205, 164, 161, 42, 38, 239, 24, 226, 235, 125 >> @@
      "a@https://t-x-m-Transformers { command: [] }" :>
        << 126, 68, 250, 45, 166, 54, 164, 32, 4, 19, 4, 31, 40, 38, 167, 154,
           191, 213, 198, 79, 20, 134, 198, 207, 35, 48, 186, 190, 136, 78, 229, 2 >> @@
      "a@https://t-x--Transformers { command: [\"python\"] }" :>
        << 79, 170, 211, 112, 172, 193, 42, 212, 73, 196, 163, 177, 200, 168, 122, 88,
           172, 232, 151, 229, 235, 56, 99, 48, 160, 239, 130, 169, 150, 201, 229, 133 >> @@
      "a@https://t-x--VLlm { command: [\"python\"] }" :>
        << 57, 117, 234, 16, 109, 36, 183, 244, 231, 40, 96, 5, 181, 72, 133, 101,
           153, 139, 0, 202, 177, 113, 133, 193, 212, 55, 4, 11, 219, 122, 140, 169 >> @@
      "a@https://t-x--Transformers { command: [\"python\", \"-u\"] }" :>
        << 156, 251, 59, 226, 237, 22, 150, 24, 253, 121, 151, 178, 255, 208, 9, 140,
           79, 88, 21, 241, 246, 176, 142, 29, 242, 231, 27, 148, 219, 141, 50, 145 >> @@
      "a@https://t-x--Transformers { command: [] }" :>
        << 125, 232, 198, 39, 23, 151, 83, 206, 212, 81, 251, 127, 227, 188, 48, 233,
           185, 242, 73, 121, 119, 241, 188, 116, 82, 169, 22, 49, 14, 147, 54, 224 >> @@
      "a@https://t-x-m-Transformers { command: [\"python\"] }" :>
        << 151, 81, 30, 150, 124, 126, 114, 9, 238, 237, 222, 93, 245, 191, 203, 46,
           139, 208, 146, 150, 220, 79, 26, 243, 51, 153, 240, 51, 254, 37, 220, 100 >> @@
      "a@https://t-x-m-VLlm { command: [\"python\"] }" :>
        << 104, 159, 97, 220, 236, 255, 202, 216, 93, 170, 84, 239, 153, 139, 182, 164,
           139, 60, 75, 157, 245, 135, 51, 244, 108, 37, 4, 188, 119, 133, 39, 61 >> @@
      "a@https://t-x-m-Transformers { command: [\"python\", \"-u\"] }" :>
        << 148, 251, 167, 225, 171, 20, 201, 208, 110, 171, 18, 237, 77, 187, 63, 89,
           45, 243, 237, 29, 31, 129, 205, 164, 161, 42, 38, 239, 24, 226, 235, 125 >> @@
      "a@https://t-x-m-Transformers { command: [] }" :>
        << 126, 68, 250, 45, 166, 54, 164, 32, 4, 19, 4, 31, 40, 38, 167, 154,
           191, 213, 198, 79, 20, 134, 198, 207, 35, 48, 186, 190, 136, 78, 229, 2 >> @@
      "a@https://t-x-x-m-Transformers { command: [\"python\"] }" :>
        << 137, 37, 87, 34, 228, 226, 231, 195, 249, 104, 150, 213, 11, 198, 65, 95,
           190, 130, 154, 144, 100, 173, 163, 52, 56, 255, 5, 219, 126, 128, 144, 239 >> @@
      "a@https://t-x-x-m-VLlm { command: [\"python\"] }" :>
        << 85, 175, 176, 160, 255, 165, 244, 164, 77, 231, 32, 192, 224, 114, 124, 232,
           177, 172, 13, 24, 216, 77, 48, 52, 230, 135, 97, 208, 95, 207, 87, 92 >> @@
      "a@https://t-x-x-m-Transformers { command: [\"python\", \"-u\"] }" :>
        << 3, 83, 82, 211, 201, 12, 80, 113, 195, 11, 255, 39, 1, 22, 153, 138,
           194, 196, 52, 8, 115, 219, 32, 117, 6, 139, 210, 246, 255, 247, 16, 154 >> @@
      "a@https://t-x-x-m-Transformers { command: [] }" :>
        << 184, 9, 240, 207, 228, 249, 118, 11, 142, 151, 160, 190, 18, 165, 210, 24,
           129, 107, 33, 13, 154, 164, 24, 215, 155, 41, 98, 140, 93, 250, 134, 79 >> @@
      "b@--Transformers { command: [\"python\"] }" :>
        << 68, 85, 188, 49, 96, 204, 129, 179, 181, 90, 222, 224, 198, 50, 160, 235,
           222, 170, 44, 252, 100, 229, 127, 66, 160, 31, 42, 228, 66, 11, 76, 166 >> @@
      "b@--VLlm { command: [\"python\"] }" :>
        << 66, 30, 55, 173, 122, 36, 146, 189, 12, 152, 82, 0, 69, 72, 13, 119,
           85, 140, 180, 143, 246, 239, 30, 131, 66, 208, 134, 242, 202, 237, 80, 186 >> @@
      "b@--Transformers { command: [\"python\", \"-u\"] }" :>
        << 110, 121, 85, 42, 31, 12, 76, 191, 157, 111, 192, 239, 15, 73, 135, 72,
           218, 42, 164, 6, 144, 157, 164, 227, 149, 196, 229, 161, 10, 173, 200, 178 >> @@
      "b@--Transformers { command: [] }" :>
        << 60, 17, 168, 41, 103, 59, 209, 62, 225, 23, 162, 16, 31, 246, 16, 224,
           103, 6, 62, 82, 96, 27, 214, 63, 69, 197, 4, 67, 112, 75, 54, 77 >> @@
      "b@-m-Transformers { command: [\"python\"] }" :>
        << 47, 97, 170, 59, 229, 93, 197, 68, 42, 181, 182, 182, 236, 220, 81, 3,
           223, 128, 62, 21, 140, 50, 255, 106, 238, 134, 1, 14, 4, 241, 200, 23 >> @@
      "b@-m-VLlm { command: [\"python\"] }" :>
        << 211, 185, 122, 52, 83, 214, 24, 110, 51, 4, 30, 126, 156, 184, 140, 244,
           57, 173, 57, 180, 48, 251, 14, 126, 100, 172, 42, 247, 23, 155, 147, 162 >> @@
      "b@-m-Transformers { command: [\"python\", \"-u\"] }" :>
        << 102, 122, 52, 31, 241, 250, 97, 55, 33, 215, 249, 103, 103, 218, 14, 172,
           134, 60, 48, 133, 95, 216, 118, 123, 252, 178, 95, 143, 206, 65, 34, 68 >> @@
      "b@-m-Transformers { command: [] }" :>
        << 1, 230, 82, 185, 117, 36, 194, 143, 66, 69, 157, 169, 237, 70, 33, 57,
           27, 227, 174, 202, 110, 12, 42, 121, 70, 190, 223, 205, 108, 128, 82, 255 >> @@
      "b@-x-m-Transformers { command: [\"python\"] }" :>
        << 118, 16, 145, 181, 160, 244, 189, 25, 146, 177, 108, 181, 116, 201, 108, 151,
           69, 141, 204, 36, 248, 65, 29, 234, 99, 45, 166, 171, 158, 168, 197, 94 >> @@
      "b@-x-m-VLlm { command: [\"python\"] }" :>
        << 169, 75, 94, 250, 105, 148, 186, 136, 74, 113, 168, 25, 114, 8, 38, 50,
           250, 102, 46, 111, 99, 102, 51, 107, 127, 38, 24, 221, 123, 94, 110, 99 >> @@
      "b@-x-m-Transformers { command: [\"python\", \"-u\"] }" :>
        << 47, 70, 11, 21, 130, 253, 156, 16, 190, 159, 135, 174, 3, 60, 49, 116,
           219, 86, 221, 40, 190, 96, 65, 103, 40, 50, 91, 6, 240, 63, 62, 151 >> @@
      "b@-x-m-Transformers { command: [] }" :>
        << 253, 245, 103, 172, 84, 107, 108, 81, 167, 193, 59, 234, 75, 225, 97, 174,
           15, 1, 179, 241, 206, 0, 206, 63, 73, 223, 20, 182, 164, 206, 133, 75 >> @@
      "b@https://t--Transformers { command: [\"python\"] }" :>
        << 18, 97, 223, 85, 71, 53, 249, 48, 88, 87, 107, 189, 17, 214, 230, 85,
           137, 224, 175, 199, 87, 183, 138, 20, 130, 136, 0, 199, 213, 203, 9, 247 >> @@
      "b@https://t--VLlm { command: [\"python\"] }" :>
        << 113, 217, 18, 235, 165, 220, 49, 47, 12, 227, 35, 186, 225, 242, 29, 13,
           201, 79, 218, 201, 229, 84, 248, 65, 55, 119, 38, 189, 5, 170, 77, 230 >> @@
      "b@https://t--Transformers { command: [\"python\", \"-u\"] }" :>
        << 151, 179, 186, 185, 71, 76, 88, 35, 190, 251, 137, 24, 138, 42, 219, 170,
           115, 142, 97, 130, 224, 14, 140, 242, 47, 74, 233, 107, 93, 75, 192, 13 >> @@
      "b@https://t--Transformers { command: [] }" :>
        << 190, 116, 131, 15, 129, 174, 46, 143, 218, 207, 195, 93, 97, 220, 47, 25,
           215, 99, 87, 203, 205, 168, 28, 41, 61, 1, 1, 172, 6, 142, 121, 78 >> @@
      "b@https://t-m-Transformers { command: [\"python\"] }" :>
        << 51, 124, 200, 249, 166, 131, 65, 154, 240, 218, 135, 2, 95, 202, 75, 239,
           214, 42, 228, 17, 26, 116, 79, 49, 158, 91, 48, 221, 71, 231, 39, 108 >> @@
      "b@https://t-m-VLlm { command: [\"python\"] }" :>
        << 100, 95, 146, 44, 191, 254, 173, 225, 202, 106, 49, 0, 216, 158, 151, 82,
           214, 45, 176, 52, 118, 41, 141, 248, 72, 4, 62, 86, 102, 26, 68, 99 >> @@
      "b@https://t-m-Transformers { command: [\"python\", \"-u\"] }" :>
        << 195, 198, 220, 64, 131, 199, 44, 59, 189, 145, 4, 208, 246, 224, 232, 139,
           225, 63, 233, 132, 168, 98, 190, 249, 7, 96, 138, 146, 40, 72, 44, 36 >> @@
      "b@https://t-m-Transformers { command: [] }" :>
        << 17, 249, 137, 205, 66, 142, 182, 77, 151, 45, 111, 250, 69, 23, 103, 158,
           248, 223, 35, 29, 144, 184, 41, 95, 153, 194, 123, 151, 251, 252, 0, 98 >> @@
      "b@https://t-x-m-Transformers { command: [\"python\"] }" :>
        << 77, 19, 71, 25, 77, 117, 163, 120, 76, 144, 20, 150, 148, 123, 121, 26,
           243, 77, 117, 241, 254, 255, 245, 72, 119, 201, 215, 160, 30, 28, 77, 92 >> @@
      "b@https://t-x-m-VLlm { command: [\"python\"] }" :>
        << 5, 110, 231, 156, 175, 41, 45, 16, 245, 17, 231, 32, 120, 61, 143, 142,
           245, 95, 79, 181, 54, 156, 112, 38, 94, 75, 67, 236, 53, 105, 237, 56 >> @@
      "b@https://t-x-m-Transformers { command: [\"python\", \"-u\"] }" :>
        << 156, 121, 193, 214, 141, 162, 149, 118, 165, 252, 8, 55, 2, 114, 47, 143,
           195, 41, 181, 244, 47, 58, 67, 33, 220, 227, 43, 205, 173, 24, 17, 149 >> @@
      "b@https://t-x-m-Transformers { command: [] }" :>
        << 101, 100, 161, 135, 87, 8, 42, 134, 244, 252, 37, 246, 189, 195, 142, 39,
           133, 30, 204, 150, 23, 150, 242, 40, 70, 75, 100, 193, 116, 240, 167, 70 >> @@
      "b@https://t-x--Transformers { command: [\"python\"] }" :>
        << 141, 209, 118, 187, 74, 44, 66, 215, 103, 190, 103, 2, 207, 102, 245, 168,
           203, 218, 121, 171, 97, 23, 101, 10, 170, 151, 128, 163, 38, 234, 228, 163 >> @@
      "b@https://t-x--VLlm { command: [\"python\"] }" :>
        << 213, 134, 24, 56, 255, 31, 231, 118, 147, 61, 48, 229, 30, 225, 229, 49,
           55, 207, 27, 142, 128, 233, 126, 173, 27, 84, 242, 129, 168, 50, 254, 249 >> @@
      "b@https://t-x--Transformers { command: [\"python\", \"-u\"] }" :>
        << 181, 161, 76, 234, 96, 253, 119, 173, 87, 168, 202, 247, 65, 26, 49, 195,
           221, 109, 184, 77, 98, 58, 125, 198, 189, 35, 144, 187, 116, 50, 118, 224 >> @@
      "b@https://t-x--Transformers { command: [] }" :>
        << 84, 47, 185, 127, 201, 74, 48, 84, 54, 190, 33, 199, 180, 231, 26, 23,
           68, 83, 46, 115, 21, 224, 203, 211, 210, 132, 94, 174, 122, 34, 41, 40 >> @@
      "b@https://t-x-m-Transformers { command: [\"python\"] }" :>
        << 77, 19, 71, 25, 77, 117, 163, 120, 76, 144, 20, 150, 148, 123, 121, 26,
           243, 77, 117, 241, 254, 255, 245, 72, 119, 201, 215, 160, 30, 28, 77, 92 >> @@
      "b@https://t-x-m-VLlm { command: [\"python\"] }" :>
        << 5, 110, 231, 156, 175, 41, 45, 16, 245, 17, 231, 32, 120, 61, 143, 142,
           245, 95, 79, 181, 54, 156, 112, 38, 94, 75, 67, 236, 53, 105, 237, 56 >> @@
      "b@https://t-x-m-Transformers { command: [\"python\", \"-u\"] }" :>
        << 156, 121, 193, 214, 141, 162, 149, 118, 165, 252, 8, 55, 2, 114, 47, 143,
           195, 41, 181, 244, 47, 58, 67, 33, 220, 227, 43, 205, 173, 24, 17, 149 >> @@
      "b@https://t-x-m-Transformers { command: [] }" :>
        << 101, 100, 161, 135, 87, 8, 42, 134, 244, 252, 37, 246, 189, 195, 142, 39,
           133, 30, 204, 150, 23, 150, 242, 40, 70, 75, 100, 193, 116, 240, 167, 70 >> @@
      "b@https://t-x-x-m-Transformers { command: [\"python\"] }" :>
        << 204, 240, 204, 210, 198, 234, 17, 25, 98, 32, 21, 104, 194, 68, 130, 155,
           82, 60, 3, 239, 228, 88, 157, 202, 254, 190, 42, 38, 113, 16, 4, 94 >> @@
      "b@https://t-x-x-m-VLlm { command: [\"python\"] }" :>
        << 151, 241, 114, 63, 25, 110, 182, 5, 144, 96, 24, 75, 204, 155, 88, 231,
           244, 74, 186, 142, 75, 63, 209, 181, 89, 142, 254, 112, 248, 231, 16, 32 >> @@
      "b@https://t-x-x-m-Transformers { command: [\"python\", \"-u\"] }" :>
        << 10, 243, 71, 53, 212, 52, 110, 65, 11, 176, 65, 228, 67, 200, 7, 242,
           238, 30, 83, 72, 28, 202, 127, 123, 246, 147, 46, 248, 198, 53, 40, 137 >> @@
      "b@https://t-x-x-m-Transformers { command: [] }" :>
        << 224, 52, 215, 36, 101, 38, 91, 87, 40, 142, 10, 125, 16, 227, 181, 233,
           7, 32, 2, 29, 79, 228, 39, 76, 248, 148, 242, 197, 149, 126, 100, 31 >> )

Sha256Digest(s) == SHA256_TABLE[s]

\* base62_str.chars().take(n)
Take(s, n) == SubSeq(s, 1, IF Len(s) < n THEN Len(s) ELSE n)

\* deployment_hash without the truncation: all symbols of the base62 text.
deployment_hash_untruncated(self) ==
    LET digest == Sha256Digest(config_string(self))
    IN  encode(digest)

deployment_hash(self) ==
    LET digest == Sha256Digest(config_string(self))
        base62_str == encode(digest)
    IN  Take(base62_str, 12)

(***************************************************************************)
(* utils.rs: URL predicates and normalisation.  The whitespace characters  *)
(* of the model are the space and the tab.                                 *)
(***************************************************************************)
IsWhitespace(ch) == ch \in {" ", "\t"}

\* str::trim_start, str::trim_end, str::trim
RECURSIVE trim_start(_)
trim_start(s) ==
    IF s # <<>> /\ IsWhitespace(Head(s)) THEN trim_start(Tail(s)) ELSE s

RECURSIVE trim_end(_)
trim_end(s) ==
    IF s # <<>> /\ IsWhitespace(s[Len(s)])
    THEN trim_end(SubSeq(s, 1, Len(s) - 1))
    ELSE s

trim(s) == trim_end(trim_start(s))

\* str::starts_with
starts_with(s, prefix) ==
    Len(s) >= Len(prefix) /\ SubSeq(s, 1, Len(prefix)) = prefix

is_absolute_http_url(s0) ==
    LET s == trim(s0)
    IN  (starts_with(s, HTTPS) \/ starts_with(s, HTTP)) /\ Len(s) > 8

normalize_tenant_url(url) ==
    LET s == trim(url)
    IN  IF s = <<>> THEN s
        ELSE IF starts_with(s, HTTPS) \/ starts_with(s, HTTP) THEN s
        ELSE HTTPS \o s

(***************************************************************************)
(* server.rs: the constructors of FlexServInstance and its builder.        *)
(***************************************************************************)
\* FlexServInstance::new
FlexServInstance_new(tenant_url, tapis_user, default_model, model_revision, hf_token, default_embedding_model, backend) ==
    [ tenant_url |-> normalize_tenant_url(tenant_url),
      tapis_user |-> tapis_user,
      default_model |-> default_model,
      model_revision |-> model_revision,
      hf_token |-> hf_token,
      default_embedding_model |-> default_embedding_model,
      backend |-> backend ]

\* TapisConfig and ModelConfig
TapisConfig(tenant_url, tapis_user, tapis_token) ==
    [ tenant_url |-> tenant_url, tapis_user |-> tapis_user,
      tapis_token |-> tapis_token ]
ModelConfig(model_id, model_revision, hf_token, default_embedding_model) ==
    [ model_id |-> model_id, model_revision |-> model_revision,
      hf_token |-> hf_token,
      default_embedding_model |-> default_embedding_model ]

\* FlexServInstance::from_configs
FlexServInstance_from_configs(tapis, model, backend) ==
    [ tenant_url |-> normalize_tenant_url(tapis.tenant_url),
      tapis_user |-> tapis.tapis_user,
      default_model |-> model.model_id,
      model_revision |-> model.model_revision,
      hf_token |-> model.hf_token,
      default_embedding_model |-> model.default_embedding_model,
      backend |-> backend ]

\* Result::Err, and the variants of ValidationError that build returns (the
\* message of InvalidTenantUrl is a fixed text).
Err(e) == [ok |-> FALSE, err |-> e]
InvalidTenantUrl == "InvalidTenantUrl"
EmptyTapisUser == "EmptyTapisUser"
EmptyModelId == "EmptyModelId"
MissingBackend == "MissingBackend"

\* FlexServInstanceBuilder::new
FlexServInstanceBuilder_new ==
    [ tenant_url |-> None, tapis_user |-> None, default_model |-> None,
      model_revision |-> None, hf_token |-> None,
      default_embedding_model |-> None, backend |-> None ]

\* Option<String>::unwrap_or_default
unwrap_or_default(opt) == IF opt.some THEN opt.v ELSE <<>>

\* build with the user checked before the tenant URL.
FlexServInstanceBuilder_build_user_first(self) ==
    LET tenant_url == trim(normalize_tenant_url(unwrap_or_default(self.tenant_url)))
        tapis_user == trim(unwrap_or_default(self.tapis_user))
        default_model == trim(unwrap_or_default(self.default_model))
    IN  IF tapis_user = <<>> THEN Err(EmptyTapisUser)
        ELSE IF tenant_url = <<>> \/ ~is_absolute_http_url(tenant_url)
        THEN Err(InvalidTenantUrl)
        ELSE IF default_model = <<>> THEN Err(EmptyModelId)
        ELSE IF ~self.backend.some THEN Err(MissingBackend)
        ELSE Ok([ tenant_url |-> tenant_url,
                  tapis_user |-> tapis_user,
                  default_model |-> default_model,
                  model_revision |-> self.model_revision,
                  hf_token |-> self.hf_token,
                  default_embedding_model |-> self.default_embedding_model,
                  backend |-> self.backend.v ])

\* FlexServInstanceBuilder::build
FlexServInstanceBuilder_build(self) ==
    LET tenant_url == trim(normalize_tenant_url(unwrap_or_default(self.tenant_url)))
        tapis_user == trim(unwrap_or_default(self.tapis_user))
        default_model == trim(unwrap_or_default(self.default_model))
    IN  IF tenant_url = <<>> \/ ~is_absolute_http_url(tenant_url)
        THEN Err(InvalidTenantUrl)
        ELSE IF tapis_user = <<>> THEN Err(EmptyTapisUser)
        ELSE IF default_model = <<>> THEN Err(EmptyModelId)
        ELSE IF ~self.backend.some THEN Err(MissingBackend)
        ELSE Ok([ tenant_url |-> tenant_url,
                  tapis_user |-> tapis_user,
                  default_model |-> default_model,
                  model_revision |-> self.model_revision,
                  hf_token |-> self.hf_token,
                  default_embedding_model |-> self.default_embedding_model,
                  backend |-> self.backend.v ])

(***************************************************************************)
(* The builder as a state machine: FlexServInstance::builder(), setters in *)
(* any order (a later call replaces the value of an earlier one), build.   *)
(***************************************************************************)
NOT_A_URL == <<"n", "o", "t", "-", "a", "-", "u", "r", "l">>

\* Arguments of the setters: empty, whitespace only, padded with whitespace,
\* with and without a scheme, a scheme and nothing else.
BuilderTenantUrls ==
    { <<>>, <<" ">>, NOT_A_URL, <<"t", ".", "i", "o">>,
      HTTPS \o <<"t">>, <<" ">> \o HTTPS \o <<"t", " ">>,
      HTTPS, HTTP \o <<"h">>, HTTP \o <<"h", "o">> }
BuilderUsers == { <<>>, <<" ">>, <<"u">>, <<" ", "u", "\t">> }
BuilderModels == { <<>>, <<"\t">>, <<"m">>, <<" ", "m", " ">> }
BuilderBackends == { [kind |-> "Transformers", command |-> <<"python">>] }

InitBuilder ==
    /\ builder = FlexServInstanceBuilder_new
    /\ built = NotBuilt
    /\ b62_pc = "idle" /\ b62_src = <<>> /\ b62_text = <<>> /\ b62_result = NotCalled
    /\ cli_pc = "idle" /\ params = EmptyMap /\ cli_args = <<>>
    /\ make_server = IdleServer /\ deployments = NoDeployments
    /\ instances = NoInstances /\ hashes = NoHashes
    /\ parameter_set = NoParameterSet
    /\ pod_deployment = NoPodDeployment /\ pods = {} /\ volumes = {}
    /\ pod_op = "none" /\ api_calls = <<>> /\ op_result = NoResult
    /\ pods_error = NoPodsError /\ mapped_error = NotMapped

\* builder.tenant_url(url)
SetTenantUrl ==
    \E url \in BuilderTenantUrls :
       /\ built = NotBuilt
       /\ builder' = [builder EXCEPT !.tenant_url = Some(url)]
       /\ UNCHANGED built
       /\ UNCHANGED not_build_vars

\* builder.tapis_user(user)
SetTapisUser ==
    \E user \in BuilderUsers :
       /\ built = NotBuilt
       /\ builder' = [builder EXCEPT !.tapis_user = Some(user)]
       /\ UNCHANGED built
       /\ UNCHANGED not_build_vars

\* builder.model(model_id)
SetModel ==
    \E model_id \in BuilderModels :
       /\ built = NotBuilt
       /\ builder' = [builder EXCEPT !.default_model = Some(model_id)]
       /\ UNCHANGED built
       /\ UNCHANGED not_build_vars

\* builder.backend(backend)
SetBackend ==
    \E backend \in BuilderBackends :
       /\ built = NotBuilt
       /\ builder' = [builder EXCEPT !.backend = Some(backend)]
       /\ UNCHANGED built
       /\ UNCHANGED not_build_vars

\* builder.build(): consumes the builder, whose fields stay as they were.
Build ==
    /\ built = NotBuilt
    /\ built' = FlexServInstanceBuilder_build(builder)
    /\ UNCHANGED builder
    /\ UNCHANGED not_build_vars

(***************************************************************************)
(* backend.rs: the parameter set builders and build_params_for_pod /       *)
(* build_params_for_hpc.                                                   *)
(***************************************************************************)
\* BackendParameterSet::new
BackendParameterSet_new(command) ==
    [command |-> command, params |-> EmptyMap, env |-> EmptyMap]

\* BackendParameterSet::insert_param on a set held by a builder
with_param(self, key, value) ==
    [self EXCEPT !.params =
       [k \in DOMAIN self.params \cup {key} |->
          IF k = key THEN value ELSE self.params[k]]]

HOST_KEY == <<"h", "o", "s", "t">>
PORT_KEY == <<"p", "o", "r", "t">>
ANY_ADDRESS == <<"0", ".", "0", ".", "0", ".", "0">>

\* panic!("Backend is not ...")
Panic == [panic |-> TRUE]

\* Backend::transformers / vllm / sglang / trtllm: the builder for the
\* variant, a panic for any other variant.
transformers(self) ==
    IF self.kind = "Transformers" THEN BackendParameterSet_new(self.command) ELSE Panic
vllm(self) ==
    IF self.kind = "VLlm" THEN BackendParameterSet_new(self.command) ELSE Panic
sglang(self) ==
    IF self.kind = "SGLang" THEN BackendParameterSet_new(self.command) ELSE Panic
trtllm(self) ==
    IF self.kind = "TrtLlm" THEN BackendParameterSet_new(self.command) ELSE Panic

\* TransformersParameterSetBuilder::default_model / host / port
default_model(self, model) == with_param(self, DEFAULT_MODEL_KEY, StringValue(model))
host(self, address) == with_param(self, HOST_KEY, StringValue(address))
port(self, number) == with_param(self, PORT_KEY, NumberValue(number))

\* <Backend as BuildBackendParameterSet>::build_params_for_pod
build_params_for_pod(self, server) ==
    IF self.kind = "Transformers"
    THEN port(host(default_model(transformers(self), server.default_model),
                   ANY_ADDRESS), 8000)
    ELSE IF self.kind = "VLlm" THEN vllm(self)
    ELSE IF self.kind = "SGLang" THEN sglang(self)
    ELSE trtllm(self)

\* build_params_for_hpc with the pod's host and port added.
build_params_for_hpc_like_pod(self, server) ==
    build_params_for_pod(self, server)

\* <Backend as BuildBackendParameterSet>::build_params_for_hpc
build_params_for_hpc(self, server) ==
    IF self.kind = "Transformers"
    THEN default_model(transformers(self), server.default_model)
    ELSE IF self.kind = "VLlm" THEN vllm(self)
    ELSE IF self.kind = "SGLang" THEN sglang(self)
    ELSE trtllm(self)

(***************************************************************************)
(* Derived parameter sets as a state machine: the caller holds a server    *)
(* and asks its backend for the parameter set of either target.            *)
(***************************************************************************)
BackendKinds == {"Transformers", "VLlm", "SGLang", "TrtLlm"}
ParamCommands == { <<>>, <<"python">>, <<"python", "-u">> }
ParamModels == { <<>>, <<"m">>, <<"x", "-", "m">>, <<"o", "/", "g">> }
ParamServers ==
    { FlexServInstance_new(HTTPS \o <<"t">>, <<"a">>, m, None, None, None,
                           [kind |-> k, command |-> c]) :
        m \in ParamModels, k \in BackendKinds, c \in ParamCommands }

InitParams ==
    /\ make_server \in ParamServers
    /\ parameter_set = NoParameterSet
    /\ deployments = NoDeployments
    /\ b62_pc = "idle" /\ b62_src = <<>> /\ b62_text = <<>> /\ b62_result = NotCalled
    /\ cli_pc = "idle" /\ params = EmptyMap /\ cli_args = <<>>
    /\ instances = NoInstances /\ hashes = NoHashes
    /\ builder = IdleBuilder /\ built = NotBuilt
    /\ pod_deployment = NoPodDeployment /\ pods = {} /\ volumes = {}
    /\ pod_op = "none" /\ api_calls = <<>> /\ op_result = NoResult
    /\ pods_error = NoPodsError /\ mapped_error = NotMapped

\* let set = server.backend.build_params_for_pod(&server);
BuildParamsForPod ==
    /\ parameter_set' =
         [ call |-> "build_params_for_pod",
           result |-> build_params_for_pod(make_server.backend, make_server) ]
    /\ UNCHANGED <<make_server, deployments>>
    /\ UNCHANGED not_pset_ids_vars

\* let set = server.backend.build_params_for_hpc(&server);
BuildParamsForHpc ==
    /\ parameter_set' =
         [ call |-> "build_params_for_hpc",
           result |-> build_params_for_hpc(make_server.backend, make_server) ]
    /\ UNCHANGED <<make_server, deployments>>
    /\ UNCHANGED not_pset_ids_vars

(***************************************************************************)
(* Hashing as a state machine: a caller builds FlexServInstance values     *)
(* with FlexServInstance::new (server and server2 in the tests) and calls  *)
(* deployment_hash on them, any number of times.                           *)
(***************************************************************************)
\* The arguments of FlexServInstance::new.  The tenant comes with and
\* without a scheme; user, tenant and model can be empty; one model and one
\* tenant hold the separator "-" of the fingerprint.
TenantArgs ==
    { <<>>, <<"t">>, HTTPS \o <<"t">>, HTTPS \o <<"t", "-", "x">> }
UserArgs == { <<>>, <<"a">> }
ModelArgs == { <<>>, <<"m">>, <<"x", "-", "m">> }
BackendArgs ==
    { [kind |-> "Transformers", command |-> <<"python">>],
      [kind |-> "VLlm", command |-> <<"python">>],
      [kind |-> "Transformers", command |-> <<>>] }
\* model_revision, hf_token, default_embedding_model
OptionalArgs ==
    { <<None, None, None>>,
      <<Some(<<"m", "a", "i", "n">>), Some(<<"b">>), Some(<<"e">>)>> }

\* The caller's variables.
InstanceSlots == {"server", "server2"}

\* How often the caller calls deployment_hash on one instance.
MaxHashCalls == 2

\* deployment_hash of the instances of the model, evaluated once each.
HashInstances ==
    { FlexServInstance_new(t, u, m, o[1], o[2], o[3], b) :
        t \in TenantArgs, u \in UserArgs, m \in ModelArgs,
        o \in OptionalArgs, b \in BackendArgs }
DeploymentHashOf ==
    LET table == [self \in HashInstances |-> deployment_hash(self)]
    IN  IF table = table THEN table ELSE table

InitHash ==
    /\ instances = NoInstances
    /\ hashes = NoHashes
    /\ b62_pc = "idle" /\ b62_src = <<>> /\ b62_text = <<>> /\ b62_result = NotCalled
    /\ cli_pc = "idle" /\ params = EmptyMap /\ cli_args = <<>>
    /\ make_server = IdleServer /\ deployments = NoDeployments
    /\ builder = IdleBuilder /\ built = NotBuilt
    /\ parameter_set = NoParameterSet
    /\ pod_deployment = NoPodDeployment /\ pods = {} /\ volumes = {}
    /\ pod_op = "none" /\ api_calls = <<>> /\ op_result = NoResult
    /\ pods_error = NoPodsError /\ mapped_error = NotMapped

\* let server = FlexServInstance::new(...);
NewInstance ==
    \E s \in InstanceSlots, t \in TenantArgs, u \in UserArgs, m \in ModelArgs,
       o \in OptionalArgs, b \in BackendArgs :
       /\ s \notin DOMAIN instances
       /\ instances' =
            [x \in DOMAIN instances \cup {s} |->
               IF x = s
               THEN FlexServInstance_new(t, u, m, o[1], o[2], o[3], b)
               ELSE instances[x]]
       /\ hashes' = [x \in DOMAIN hashes \cup {s} |->
                       IF x = s THEN <<>> ELSE hashes[x]]
       /\ UNCHANGED not_hash_vars

\* let hash = server.deployment_hash();
DeploymentHash ==
    \E s \in DOMAIN instances :
       /\ Len(hashes[s]) < MaxHashCalls
       /\ hashes' = [hashes EXCEPT ![s] = Append(@, DeploymentHashOf[instances[s]])]
       /\ UNCHANGED instances
       /\ UNCHANGED not_hash_vars

(***************************************************************************)
(* deployment/pod.rs: identifier derivation.                               *)
(***************************************************************************)
\* char::is_ascii_alphanumeric: the 62 characters 0-9, A-Z, a-z.
is_ascii_alphanumeric(ch) == \E i \in 1..62 : ALPHABET[i] = ch

\* char::to_lowercase: an ASCII capital letter becomes the small letter,
\* every other character of the model is unchanged.
AsciiUpper ==
    << "A", "B", "C", "D", "E", "F", "G", "H", "I", "J", "K", "L", "M",
       "N", "O", "P", "Q", "R", "S", "T", "U", "V", "W", "X", "Y", "Z" >>
AsciiLower ==
    << "a", "b", "c", "d", "e", "f", "g", "h", "i", "j", "k", "l", "m",
       "n", "o", "p", "q", "r", "s", "t", "u", "v", "w", "x", "y", "z" >>
char_to_lowercase(ch) ==
    IF \E i \in 1..26 : AsciiUpper[i] = ch
    THEN AsciiLower[CHOOSE i \in 1..26 : AsciiUpper[i] = ch]
    ELSE ch

\* String::to_lowercase
to_lowercase(s) == [i \in 1..Len(s) |-> char_to_lowercase(s[i])]

\* id.chars().filter(|c| c.is_ascii_alphanumeric())
\*          .flat_map(|c| c.to_lowercase()).collect()
RECURSIVE normalize_to_lowercase_alphanumeric(_)
normalize_to_lowercase_alphanumeric(id) ==
    IF id = <<>> THEN <<>>
    ELSE (IF is_ascii_alphanumeric(Head(id))
          THEN <<char_to_lowercase(Head(id))>> ELSE <<>>)
           \o normalize_to_lowercase_alphanumeric(Tail(id))

\* ids_from_options without the fallback: an id that normalises to the
\* empty string gives the empty suffix.
ids_from_options_no_fallback(server, options) ==
    LET suffix ==
          IF options.deployment_id.some
          THEN normalize_to_lowercase_alphanumeric(options.deployment_id.v)
          ELSE to_lowercase(deployment_hash(server))
    IN  << <<"p">> \o suffix, <<"v">> \o suffix >>

\* ids_from_options that does not look at options.deployment_id: the ids
\* come from the deployment hash alone.
ids_from_options_hash_only(server, options) ==
    LET suffix == to_lowercase(deployment_hash(server))
    IN  << <<"p">> \o suffix, <<"v">> \o suffix >>

\* FlexServPodDeployment::ids_from_options: (pod_id, volume_id)
ids_from_options(server, options) ==
    LET suffix ==
          IF options.deployment_id.some
          THEN LET normalized ==
                     normalize_to_lowercase_alphanumeric(options.deployment_id.v)
               IN  IF normalized = <<>>
                   THEN to_lowercase(deployment_hash(server))
                   ELSE normalized
          ELSE to_lowercase(deployment_hash(server))
    IN  << <<"p">> \o suffix, <<"v">> \o suffix >>

\* PodDeploymentOptions::default() with the given deployment_id.
PodDeploymentOptions(deployment_id) ==
    [ deployment_id |-> deployment_id,
      volume_size_mb |-> None, image |-> None, cpu_request |-> None,
      cpu_limit |-> None, mem_request_mb |-> None, mem_limit_mb |-> None,
      gpus |-> None, flexserv_secret |-> None ]

\* FlexServPodDeployment::with_options
with_options(server, tapis_token, options) ==
    LET ids == ids_from_options(server, options)
    IN  [ server |-> server,
          tapis_token |-> tapis_token,
          options |-> options,
          volume_id |-> ids[2],
          pod_id |-> ids[1],
          volume_info |-> None,
          pod_info |-> None ]

\* FlexServPodDeployment::new
FlexServPodDeployment_new(server, tapis_token) ==
    with_options(server, tapis_token, PodDeploymentOptions(None))

\* FlexServPodDeployment::from_configs
FlexServPodDeployment_from_configs(tapis, model, backend, options) ==
    LET server == FlexServInstance_from_configs(tapis, model, backend)
    IN  with_options(server, tapis.tapis_token, options)

\* FlexServPodDeployment::create_deployment
create_deployment(tenant_url, tapis_user, tapis_token, model_id, deployment_id, backend) ==
    LET server ==
          FlexServInstanceBuilder_build(
            [FlexServInstanceBuilder_new EXCEPT
               !.tenant_url = Some(tenant_url),
               !.tapis_user = Some(tapis_user),
               !.default_model = Some(model_id),
               !.backend = Some(backend)])
    IN  IF ~server.ok THEN server
        ELSE Ok(with_options(server.value, tapis_token,
                             PodDeploymentOptions(deployment_id)))

(***************************************************************************)
(* Deployment construction as a state machine: a caller has a server       *)
(* configuration (make_server in the tests) and builds deployments from    *)
(* equal instances of it, each with its own optional deployment id.        *)
(***************************************************************************)
UUID1 ==
    << "5", "5", "0", "e", "8", "4", "0", "0", "-", "e", "2", "9",
       "b", "-", "4", "1", "d", "4", "-", "a", "7", "1", "6", "-",
       "4", "4", "6", "6", "5", "5", "4", "4", "0", "0", "0", "0" >>
UUID2 ==
    << "6", "b", "a", "7", "b", "8", "1", "0", "-", "9", "d", "a",
       "d", "-", "1", "1", "d", "1", "-", "8", "0", "b", "4", "-",
       "0", "0", "c", "0", "4", "f", "d", "4", "3", "0", "c", "8" >>

\* Characters of the short deployment ids: a capital letter, the same
\* letter in lower case, a digit, and a character that normalisation drops.
IdChars == {"A", "a", "5", "-"}
MaxIdLen == 2
DeploymentIds ==
    {None} \cup { Some(id) : id \in SeqsUpTo(IdChars, MaxIdLen) \cup {UUID1, UUID2} }

Slots == {"d1", "d2"}

InitIds ==
    /\ make_server \in Servers
    /\ deployments = NoDeployments
    /\ b62_pc = "idle" /\ b62_src = <<>> /\ b62_text = <<>> /\ b62_result = NotCalled
    /\ cli_pc = "idle" /\ params = EmptyMap /\ cli_args = <<>>
    /\ instances = NoInstances /\ hashes = NoHashes
    /\ builder = IdleBuilder /\ built = NotBuilt
    /\ parameter_set = NoParameterSet
    /\ pod_deployment = NoPodDeployment /\ pods = {} /\ volumes = {}
    /\ pod_op = "none" /\ api_calls = <<>> /\ op_result = NoResult
    /\ pods_error = NoPodsError /\ mapped_error = NotMapped

\* let d = FlexServPodDeployment::with_options(make_server(), token, opts);
WithOptions ==
    \E d \in Slots, deployment_id \in DeploymentIds :
       /\ d \notin DOMAIN deployments
       /\ deployments' =
            [x \in DOMAIN deployments \cup {d} |->
               IF x = d
               THEN with_options(make_server, "token",
                                 PodDeploymentOptions(deployment_id))
               ELSE deployments[x]]
       /\ UNCHANGED make_server
       /\ UNCHANGED not_ids_vars

(***************************************************************************)
(* The four constructors of FlexServPodDeployment as a state machine: the  *)
(* caller holds a server configuration and builds deployments with new and *)
(* with_options from it, and with from_configs and create_deployment from  *)
(* its own arguments.                                                      *)
(***************************************************************************)
\* The server configurations the caller holds: an ordinary one and the one
\* whose strings and command sequence are all empty.
ConstructServers ==
    { FlexServInstance_new(HTTPS \o <<"t">>, <<"a">>, <<"m">>, None, None, None,
                           [kind |-> "Transformers", command |-> <<"python">>]),
      FlexServInstance_new(<<>>, <<>>, <<>>, None, None, None,
                           [kind |-> "Transformers", command |-> <<>>]) }

\* Arguments of from_configs and create_deployment.
ConfigTenantUrls == { <<>>, <<"t">>, <<" ">> \o HTTPS \o <<"t", "-", "x", " ">> }
ConfigUsers == { <<>>, <<"a">> }
ConfigModels == { <<>>, <<"x", "-", "m">> }
ConfigBackends == { [kind |-> "VLlm", command |-> <<"python">>] }
ConfigDeploymentIds ==
    { None, Some(<<>>), Some(<<"-", "_">>), Some(<<"A", "-", "5">>) }
PaddedUsers == { <<>>, <<" ", "b", " ">> }
PaddedModels == { <<"\t">>, <<" ", "m">> }

InitConstruct ==
    /\ make_server \in ConstructServers
    /\ deployments = NoDeployments
    /\ b62_pc = "idle" /\ b62_src = <<>> /\ b62_text = <<>> /\ b62_result = NotCalled
    /\ cli_pc = "idle" /\ params = EmptyMap /\ cli_args = <<>>
    /\ instances = NoInstances /\ hashes = NoHashes
    /\ builder = IdleBuilder /\ built = NotBuilt
    /\ parameter_set = NoParameterSet
    /\ pod_deployment = NoPodDeployment /\ pods = {} /\ volumes = {}
    /\ pod_op = "none" /\ api_calls = <<>> /\ op_result = NoResult
    /\ pods_error = NoPodsError /\ mapped_error = NotMapped

\* let d = FlexServPodDeployment::new(server, "dummy-token".to_string());
New ==
    \E d \in Slots :
       /\ d \notin DOMAIN deployments
       /\ deployments' =
            [x \in DOMAIN deployments \cup {d} |->
               IF x = d
               THEN FlexServPodDeployment_new(make_server, "dummy-token")
               ELSE deployments[x]]
       /\ UNCHANGED make_server
       /\ UNCHANGED not_ids_vars

\* let d = FlexServPodDeployment::from_configs(tapis, model, backend, options);
FromConfigs ==
    \E d \in Slots, tenant_url \in ConfigTenantUrls, tapis_user \in ConfigUsers,
       model_id \in ConfigModels, backend \in ConfigBackends,
       deployment_id \in ConfigDeploymentIds :
       /\ d \notin DOMAIN deployments
       /\ deployments' =
            [x \in DOMAIN deployments \cup {d} |->
               IF x = d
               THEN FlexServPodDeployment_from_configs(
                      TapisConfig(tenant_url, tapis_user, "jwt"),
                      ModelConfig(model_id, None, None, None),
                      backend, PodDeploymentOptions(deployment_id))
               ELSE deployments[x]]
       /\ UNCHANGED make_server
       /\ UNCHANGED not_ids_vars

\* let d = FlexServPodDeployment::create_deployment(...)?;  on Err the
\* caller has no deployment.
CreateDeployment ==
    \E d \in Slots, tenant_url \in ConfigTenantUrls, tapis_user \in PaddedUsers,
       model_id \in PaddedModels, backend \in ConfigBackends,
       deployment_id \in ConfigDeploymentIds :
       LET result == create_deployment(tenant_url, tapis_user, "api-token",
                                       model_id, deployment_id, backend)
       IN  /\ d \notin DOMAIN deployments
           /\ deployments' =
                IF result.ok
                THEN [x \in DOMAIN deployments \cup {d} |->
                        IF x = d THEN result.value ELSE deployments[x]]
                ELSE deployments
           /\ UNCHANGED make_server
           /\ UNCHANGED not_ids_vars

(***************************************************************************)
(* deployment/pod.rs: the lifecycle operations.  The Pods service is       *)
(* reached through tapis_sdk; it is modelled by the pods and volumes that  *)
(* exist and, for every call, by the set of outcomes the call may have: a  *)
(* call may always fail on the way (a server error, a timeout) and leave   *)
(* the service as it was.                                                  *)
(***************************************************************************)
\* apis::Error::ResponseError(ResponseContent { status, content, .. })
ResponseError(status, content) ==
    [kind |-> "ResponseError", status |-> status, content |-> content]
\* apis::Error::Reqwest(e) with what e.is_timeout() and e.is_connect() say
ReqwestError(is_timeout, is_connect) ==
    [kind |-> "Reqwest", is_timeout |-> is_timeout, is_connect |-> is_connect]

ALREADY_EXISTS_TEXT ==
    <<"a", "l", "r", "e", "a", "d", "y", " ", "e", "x", "i", "s", "t", "s">>
UNIQUE_VIOLATION_TEXT ==
    <<"U", "n", "i", "q", "u", "e", "V", "i", "o", "l", "a", "t", "i", "o", "n">>

\* The responses of the service to a call it cannot serve.
NotFound == ResponseError(404, <<"n", "o", "t", " ", "f", "o", "u", "n", "d">>)
PodExists == ResponseError(400, ALREADY_EXISTS_TEXT)
VolumeExists ==
    { ResponseError(400, <<"v", " ">> \o ALREADY_EXISTS_TEXT),
      ResponseError(500, UNIQUE_VIOLATION_TEXT \o <<":", "v">>) }
InvalidId == ResponseError(400, <<"i", "n", "v", "a", "l", "i", "d", " ", "i", "d">>)
\* The failure any call may meet whatever the state of the service.
Failures == { ResponseError(500, <<"e", "r", "r", "o", "r">>) }

\* e.to_string() of an error of a dependency: a text determined by the error,
\* which the program does not inspect.
Display(e) ==
    IF e.kind = "Reqwest"
    THEN <<"Reqwest", IF e.is_timeout THEN "timeout"
                      ELSE IF e.is_connect THEN "connect" ELSE "other">>
    ELSE <<e.kind>>
\* format!("{:#?}", x): a text determined by the value.
DebugText(x) == <<"Debug", x>>

\* The URLs the service may assign to a pod (networking.default.url).
PodUrls == { None, Some(<<"u">>) }

\* One outcome of a call: the service afterwards and the value returned.
Outcome(p, v, res) == [pods |-> p, volumes |-> v, res |-> res]
Failed(p, v) == { Outcome(p, v, Err(e)) : e \in Failures }

\* The pods of the service are records of the request that created the pod
\* and the URL the service gave it; there is at most one pod per id.
HasPod(p, pod_id) == \E x \in p : x.request.pod_id = pod_id
PodOf(p, pod_id) == CHOOSE x \in p : x.request.pod_id = pod_id

\* The PodResponse for a pod of the service.
PodResponse(pod) == [result |-> [pod_id |-> pod.request.pod_id, url |-> pod.url]]

\* pods_api::delete_pod
delete_pod(p, v, pod_id) ==
    Failed(p, v) \cup
    ( IF HasPod(p, pod_id)
      THEN { Outcome(p \ {PodOf(p, pod_id)}, v, Ok(<<"DeletePodResponse", pod_id>>)) }
      ELSE { Outcome(p, v, Err(NotFound)) } )

\* volumes_api::delete_volume
delete_volume(p, v, volume_id) ==
    Failed(p, v) \cup
    ( IF volume_id \in v
      THEN { Outcome(p, v \ {volume_id}, Ok(<<"DeleteVolumeResponse", volume_id>>)) }
      ELSE { Outcome(p, v, Err(NotFound)) } )

\* volumes_api::create_volume (of the transport errors, the model has a
\* timeout of this call)
create_volume(p, v, new_volume) ==
    Failed(p, v) \cup { Outcome(p, v, Err(ReqwestError(TRUE, FALSE))) } \cup
    ( IF new_volume.volume_id = <<>>
      THEN { Outcome(p, v, Err(InvalidId)) }
      ELSE IF new_volume.volume_id \in v
      THEN { Outcome(p, v, Err(e)) : e \in VolumeExists }
      ELSE { Outcome(p, v \cup {new_volume.volume_id},
                     Ok(<<"VolumeResponse", new_volume.volume_id>>)) } )

\* pods_api::create_pod
create_pod(p, v, new_pod) ==
    Failed(p, v) \cup
    ( IF HasPod(p, new_pod.pod_id)
      THEN { Outcome(p, v, Err(PodExists)) }
      ELSE { Outcome(p \cup {[request |-> new_pod, url |-> u]}, v,
                     Ok(PodResponse([request |-> new_pod, url |-> u])))
             : u \in PodUrls } )

\* pods_api::get_pod
get_pod(p, v, pod_id) ==
    Failed(p, v) \cup
    ( IF HasPod(p, pod_id)
      THEN { Outcome(p, v, Ok(PodResponse(PodOf(p, pod_id)))) }
      ELSE { Outcome(p, v, Err(NotFound)) } )

\* pods_api::start_pod
start_pod(p, v, pod_id) == get_pod(p, v, pod_id)

\* pods_api::stop_pod
stop_pod(p, v, pod_id) == get_pod(p, v, pod_id)

\* volumes_api::get_volume
get_volume(p, v, volume_id) ==
    Failed(p, v) \cup
    ( IF volume_id \in v
      THEN { Outcome(p, v, Ok([result |-> <<"VolumeResponseModel", volume_id>>])) }
      ELSE { Outcome(p, v, Err(NotFound)) } )

\* DeploymentError variants, each with its message
DeploymentError(variant, msg) == [variant |-> variant, msg |-> msg]

\* HeaderValue::from_str accepts a text without control characters.
IsHeaderValueChar(ch) == ch \notin {"\n", "\r"}

\* str::trim_end_matches('/')
RECURSIVE trim_end_matches_slash(_)
trim_end_matches_slash(s) ==
    IF s # <<>> /\ s[Len(s)] = "/"
    THEN trim_end_matches_slash(SubSeq(s, 1, Len(s) - 1))
    ELSE s

\* FlexServPodDeployment::pods_config
pods_config(self) ==
    IF \A i \in DOMAIN self.tapis_token : IsHeaderValueChar(self.tapis_token[i])
    THEN Ok([ base_path |-> trim_end_matches_slash(self.server.tenant_url) \o <<"/", "v", "3">>,
              token |-> self.tapis_token ])
    ELSE Err(DeploymentError("TapisAuthFailed", <<"invalid header value">>))

\* FlexServPodDeployment::pod_url_from_result
pod_url_from_result(result) == result.url

\* map_pods_error with 403 left out of the test for an authentication
\* failure.
map_pods_error_401_only(err) ==
    IF err.kind = "Reqwest"
    THEN ( IF err.is_timeout THEN DeploymentError("TapisTimeout", Display(err))
           ELSE IF err.is_connect THEN DeploymentError("TapisAPIUnreachable", Display(err))
           ELSE DeploymentError("UnknownError", Display(err)) )
    ELSE IF err.kind \in {"ReqwestMiddleware", "Serde", "Io"}
    THEN DeploymentError("UnknownError", Display(err))
    ELSE LET code == err.status
         IN  IF code = 401
             THEN DeploymentError("TapisAuthFailed", err.content)
             ELSE IF code = 400
             THEN DeploymentError("TapisBadRequest", err.content)
             ELSE IF code >= 500 /\ code < 600
             THEN DeploymentError("TapisInternalServerError", err.content)
             ELSE DeploymentError("UnknownError", err.content)

\* FlexServPodDeployment::map_pods_error
map_pods_error(err) ==
    IF err.kind = "Reqwest"
    THEN ( IF err.is_timeout THEN DeploymentError("TapisTimeout", Display(err))
           ELSE IF err.is_connect THEN DeploymentError("TapisAPIUnreachable", Display(err))
           ELSE DeploymentError("UnknownError", Display(err)) )
    ELSE IF err.kind \in {"ReqwestMiddleware", "Serde", "Io"}
    THEN DeploymentError("UnknownError", Display(err))
    ELSE LET code == err.status
         IN  IF code = 401 \/ code = 403
             THEN DeploymentError("TapisAuthFailed", err.content)
             ELSE IF code = 400
             THEN DeploymentError("TapisBadRequest", err.content)
             ELSE IF code >= 500 /\ code < 600
             THEN DeploymentError("TapisInternalServerError", err.content)
             ELSE DeploymentError("UnknownError", err.content)

\* contains as a comparison of the whole text.
contains_whole_text(s, pat) == s = pat

\* str::contains
contains(s, pat) ==
    \E i \in 1..(Len(s) - Len(pat) + 1) : SubSeq(s, i, i + Len(pat) - 1) = pat

\* str::replace('/', "_")
replace_slash(s) == [i \in 1..Len(s) |-> IF s[i] = "/" THEN "_" ELSE s[i]]

\* FlexServPodDeployment::from_existing
from_existing(server, tapis_token, pod_id, volume_id) ==
    [ server |-> server,
      tapis_token |-> tapis_token,
      options |-> PodDeploymentOptions(None),
      volume_id |-> volume_id,
      pod_id |-> pod_id,
      volume_info |-> None,
      pod_info |-> None ]

\* DeploymentResult::PodResult
PodResult(self, pod_url, pod_info, volume_info) ==
    [ pod_id |-> self.pod_id,
      volume_id |-> self.volume_id,
      pod_url |-> pod_url,
      pod_info |-> pod_info,
      volume_info |-> volume_info,
      tapis_user |-> self.server.tapis_user,
      tapis_tenant |-> self.server.tenant_url,
      model_id |-> self.server.default_model ]

\* Option<T>::unwrap_or
unwrap_or(opt, default) == IF opt.some THEN opt.v ELSE default

MODEL_REPO_PATH == <<"/", "a", "p", "p", "/", "m", "o", "d", "e", "l", "s">>
NO_MODEL_YET == <<"n", "o", "-", "m", "o", "d", "e", "l", "-", "y", "e", "t">>
MAIN_REVISION == <<"m", "a", "i", "n">>
DEFAULT_IMAGE ==
    <<"t", "a", "p", "i", "s", "/", "f", "l", "e", "x", "s", "e", "r", "v", ":", "1", ".", "0">>

\* The words of a shell command line: a word is a sequence of literal texts
\* and of references to environment variables (all inside double quotes
\* where the script has them, so that a word stays one word).
Lit(s) == [lit |-> s]
Var(name) == [var |-> name]

\* startup_script: under `set -e`, download the model when MODEL_ID is set,
\* then replace the shell by the server process (`exec ...`).
STARTUP_SCRIPT ==
    [ set_e |-> TRUE,
      download_if_set |-> "MODEL_ID",
      exec |->
        << <<Lit("/app/venvs/transformers/bin/python")>>,
           <<Lit("/app/flexserv/python/backend/transformers/backend_server.py")>>,
           <<Var("MODEL_REPO"), Lit("/"), Var("MODEL_NAME")>>,
           <<Lit("--host")>>, <<Lit("0.0.0.0")>>,
           <<Lit("--port")>>, <<Lit("8000")>>,
           <<Lit("--flexserv-token")>>, <<Var("FLEXSERV_TOKEN")>> >> ]

\* The NewVolume and NewPod requests that create_impl builds when the
\* process environment of the deployer is `env`.
NewVolume(self) ==
    [ volume_id |-> self.volume_id,
      description |-> Some(<<"Volume for ">> \o self.server.tapis_user
                             \o <<"@">> \o self.server.default_model),
      size_limit |-> Some(unwrap_or(self.options.volume_size_mb, 10 * 1024)) ]

NewPod(self, env) ==
    LET model_dir_name == replace_slash(self.server.default_model)
        image == unwrap_or(self.options.image, DEFAULT_IMAGE)
        flexserv_secret ==
          unwrap_or(self.options.flexserv_secret,
                    unwrap_or_default(env.FLEXSERV_SECRET))
        flexserv_token == flexserv_secret \o model_dir_name
        skip_model_download ==
          \/ self.server.default_model = <<>>
          \/ self.server.default_model = NO_MODEL_YET
        model_id_for_pod ==
          IF skip_model_download THEN <<>> ELSE self.server.default_model
        model_revision == unwrap_or(self.server.model_revision, MAIN_REVISION)
        hf_token ==
          IF self.server.hf_token.some THEN self.server.hf_token ELSE env.HF_TOKEN
        env_vars ==
          [ MODEL_REPO |-> MODEL_REPO_PATH,
            FLEXSERV_PORT |-> <<"8", "0", "0", "0">>,
            MODEL_NAME |-> model_dir_name,
            FLEXSERV_SECRET |-> flexserv_secret,
            FLEXSERV_TOKEN |-> flexserv_token,
            MODEL_ID |-> model_id_for_pod,
            MODEL_REVISION |-> model_revision ]
    IN  [ pod_id |-> self.pod_id,
          image |-> Some(image),
          description |-> Some(<<"FlexServ pod for ">> \o self.server.tapis_user
                                 \o <<"@">> \o self.server.default_model),
          command |-> <<"/bin/sh">>,
          arguments |-> <<"-c", STARTUP_SCRIPT>>,
          environment_variables |->
            IF hf_token.some
            THEN env_vars @@ [HF_TOKEN |-> hf_token.v]
            ELSE env_vars,
          status_requested |-> Some("ON"),
          volume_mounts |->
            [ path |-> MODEL_REPO_PATH, source_id |-> self.volume_id,
              sub_path |-> <<>> ],
          time_to_stop_default |-> -1,
          time_to_stop_instance |-> -1,
          networking |-> [protocol |-> "http", port |-> 8000],
          resources |->
            [ cpu_request |-> unwrap_or(self.options.cpu_request, 1000),
              cpu_limit |-> unwrap_or(self.options.cpu_limit, 2000),
              mem_request |-> unwrap_or(self.options.mem_request_mb, 4096),
              mem_limit |-> unwrap_or(self.options.mem_limit_mb, 8192),
              gpus |-> unwrap_or(self.options.gpus, 0) ] ]

\* What the shell makes of one word in the environment of the pod.
ExpandPart(part, env) ==
    IF "var" \in DOMAIN part
    THEN (IF part.var \in DOMAIN env THEN Str(env[part.var]) ELSE "")
    ELSE part.lit
RECURSIVE ExpandWord(_, _)
ExpandWord(word, env) ==
    IF Len(word) = 0 THEN ""
    ELSE ExpandPart(Head(word), env) \o ExpandWord(Tail(word), env)

\* The argument vector of the server process of a pod made from `request`:
\* the container runs command ++ arguments, that is `/bin/sh -c script`, and
\* the script ends by exec'ing its last command line.
ProcessArgv(request) ==
    LET script == request.arguments[2]
    IN  [ i \in 1..Len(script.exec) |->
            ExpandWord(script.exec[i], request.environment_variables) ]

(***************************************************************************)
(* The lifecycle as a state machine: a caller holds one deployment and     *)
(* calls create, start, stop, terminate and monitor on it in any order.    *)
(***************************************************************************)
\* The deployments the caller may hold: one per model and backend, made by
\* with_options from an explicit deployment id, and variations of the first
\* of them in the Hugging Face token, the secret, the Tapis token and the
\* constructor.
PodServer(model, hf_token, backend) ==
    FlexServInstance_new(HTTPS \o <<"t", "/">>, <<"a">>, model, None, hf_token,
                         None, backend)
TRANSFORMERS == [kind |-> "Transformers", command |-> <<"python">>]
VLLM == [kind |-> "VLlm", command |-> <<"python">>]
GPT2 == <<"o", "/", "g">>
JWT == <<"j", "w", "t">>
POD_DEPLOYMENT_ID == <<"d", "1">>
POD_ID == <<"p", "d", "1">>
VOLUME_ID == <<"v", "d", "1">>
PodOptions(secret) ==
    [PodDeploymentOptions(Some(POD_DEPLOYMENT_ID)) EXCEPT !.flexserv_secret = secret]

PodDeployments ==
    { with_options(PodServer(model, None, backend), JWT, PodOptions(None))
      : model \in {GPT2, NO_MODEL_YET}, backend \in {TRANSFORMERS, VLLM} }
    \cup
    { with_options(PodServer(GPT2, Some(<<"k">>), TRANSFORMERS), JWT, PodOptions(None)),
      with_options(PodServer(GPT2, None, TRANSFORMERS), JWT, PodOptions(Some(<<"s">>))),
      with_options(PodServer(GPT2, None, TRANSFORMERS), <<"j", "\n">>, PodOptions(None)),
      from_existing(PodServer(GPT2, None, TRANSFORMERS), JWT, POD_ID, VOLUME_ID),
      from_existing(PodServer(GPT2, None, TRANSFORMERS), JWT, POD_ID, <<>>) }

\* The values of FLEXSERV_SECRET and HF_TOKEN in the environment of the
\* deployer process (std::env::var).
ProcessEnvs ==
    { [FLEXSERV_SECRET |-> None, HF_TOKEN |-> None],
      [FLEXSERV_SECRET |-> Some(<<"e">>), HF_TOKEN |-> Some(<<"h">>)] }

\* A pod with the caller's pod id that exists before the caller's first
\* operation.
EarlierPod == [request |-> [pod_id |-> POD_ID], url |-> None]

InitPod ==
    /\ pod_deployment \in PodDeployments
    /\ pods \in { {}, {EarlierPod} }
    /\ volumes \in { {}, {VOLUME_ID} }
    /\ pod_op = "none" /\ api_calls = <<>> /\ op_result = NoResult
    /\ b62_pc = "idle" /\ b62_src = <<>> /\ b62_text = <<>> /\ b62_result = NotCalled
    /\ cli_pc = "idle" /\ params = EmptyMap /\ cli_args = <<>>
    /\ make_server = IdleServer /\ deployments = NoDeployments
    /\ instances = NoInstances /\ hashes = NoHashes
    /\ builder = IdleBuilder /\ built = NotBuilt
    /\ parameter_set = NoParameterSet
    /\ pods_error = NoPodsError /\ mapped_error = NotMapped

\* One call of the operation, as the caller sees it.
Call(api, arg, outcome) == [api |-> api, arg |-> arg, res |-> outcome.res]

\* Return forgetting pod_info and volume_info when the operation failed.
ReturnForgettingInfo(op, self, p, v, calls, result) ==
    /\ pod_deployment' =
         IF result.ok THEN self
         ELSE [self EXCEPT !.pod_info = None, !.volume_info = None]
    /\ pods' = p
    /\ volumes' = v
    /\ pod_op' = op
    /\ api_calls' = calls
    /\ op_result' = result
    /\ UNCHANGED not_pod_vars

\* The end of an operation: the deployment and the service as the operation
\* leaves them, the calls it made and what it returned.
Return(op, self, p, v, calls, result) ==
    /\ pod_deployment' = self
    /\ pods' = p
    /\ volumes' = v
    /\ pod_op' = op
    /\ api_calls' = calls
    /\ op_result' = result
    /\ UNCHANGED not_pod_vars

\* CreatePod without the cleanup of the volume when create_pod fails.
CreatePodNoCleanup(self, env, p, v, calls) ==
    \E c \in create_pod(p, v, NewPod(self, env)) :
      LET calls_c == Append(calls, Call("create_pod", self.pod_id, c))
      IN  IF c.res.ok
          THEN LET result == c.res.value.result
                   stored == [self EXCEPT
                                !.pod_info = Some(DebugText(result)),
                                !.volume_info = Some(self.volume_id)]
               IN  Return("create", stored, c.pods, c.volumes, calls_c,
                          Ok(PodResult(stored, pod_url_from_result(result),
                                       unwrap_or_default(stored.pod_info),
                                       unwrap_or_default(stored.volume_info))))
          ELSE Return("create", self, c.pods, c.volumes, calls_c,
                      Err(map_pods_error(c.res.err)))

\* create_impl from the create_pod call on.
CreatePod(self, env, p, v, calls) ==
    \E c \in create_pod(p, v, NewPod(self, env)) :
      LET calls_c == Append(calls, Call("create_pod", self.pod_id, c))
      IN  IF c.res.ok
          THEN LET result == c.res.value.result
                   stored == [self EXCEPT
                                !.pod_info = Some(DebugText(result)),
                                !.volume_info = Some(self.volume_id)]
               IN  Return("create", stored, c.pods, c.volumes, calls_c,
                          Ok(PodResult(stored, pod_url_from_result(result),
                                       unwrap_or_default(stored.pod_info),
                                       unwrap_or_default(stored.volume_info))))
          ELSE \E d \in delete_volume(c.pods, c.volumes, self.volume_id) :
                 Return("create", self, d.pods, d.volumes,
                        Append(calls_c, Call("delete_volume", self.volume_id, d)),
                        Err(map_pods_error(c.res.err)))

\* Create going on to create_pod whatever create_volume returned.
CreateIgnoringVolumeError ==
    LET self == pod_deployment
        config == pods_config(self)
    IN  IF ~config.ok
        THEN Return("create", self, pods, volumes, <<>>, config)
        ELSE
          \E env \in ProcessEnvs :
          \E d1 \in delete_pod(pods, volumes, self.pod_id) :
          \E d2 \in delete_volume(d1.pods, d1.volumes, self.volume_id) :
          \E c1 \in create_volume(d2.pods, d2.volumes, NewVolume(self)) :
            CreatePod(self, env, c1.pods, c1.volumes,
                      << Call("delete_pod", self.pod_id, d1),
                         Call("delete_volume", self.volume_id, d2),
                         Call("create_volume", self.volume_id, c1) >>)

\* FlexServPodDeployment::create_impl (the trait's create)
Create ==
    LET self == pod_deployment
        config == pods_config(self)
    IN  IF ~config.ok
        THEN Return("create", self, pods, volumes, <<>>, config)
        ELSE
          \E env \in ProcessEnvs :
          \E d1 \in delete_pod(pods, volumes, self.pod_id) :
          \E d2 \in delete_volume(d1.pods, d1.volumes, self.volume_id) :
          \E c1 \in create_volume(d2.pods, d2.volumes, NewVolume(self)) :
            LET calls3 == << Call("delete_pod", self.pod_id, d1),
                             Call("delete_volume", self.volume_id, d2),
                             Call("create_volume", self.volume_id, c1) >>
            IN  IF c1.res.ok
                THEN CreatePod(self, env, c1.pods, c1.volumes, calls3)
                ELSE IF /\ c1.res.err.kind = "ResponseError"
                        /\ \/ contains(c1.res.err.content, ALREADY_EXISTS_TEXT)
                           \/ contains(c1.res.err.content, UNIQUE_VIOLATION_TEXT)
                THEN \E d3 \in delete_volume(c1.pods, c1.volumes, self.volume_id) :
                     \E c2 \in create_volume(d3.pods, d3.volumes, NewVolume(self)) :
                       LET calls5 == calls3 \o
                                     << Call("delete_volume", self.volume_id, d3),
                                        Call("create_volume", self.volume_id, c2) >>
                       IN  IF c2.res.ok
                           THEN CreatePod(self, env, c2.pods, c2.volumes, calls5)
                           ELSE Return("create", self, c2.pods, c2.volumes, calls5,
                                       Err(map_pods_error(c2.res.err)))
                ELSE Return("create", self, c1.pods, c1.volumes, calls3,
                            Err(map_pods_error(c1.res.err)))

\* start_impl and stop_impl after the call: the mapped error, or the result
\* made from the response.
PodCallResult(self, res) ==
    IF res.ok
    THEN Ok(PodResult(self, pod_url_from_result(res.value.result),
                      DebugText(res.value.result), self.volume_id))
    ELSE Err(map_pods_error(res.err))

\* FlexServPodDeployment::start_impl (the trait's start)
Start ==
    LET self == pod_deployment
        config == pods_config(self)
    IN  IF ~config.ok
        THEN Return("start", self, pods, volumes, <<>>, config)
        ELSE \E s \in start_pod(pods, volumes, self.pod_id) :
               Return("start", self, s.pods, s.volumes,
                      <<Call("start_pod", self.pod_id, s)>>,
                      PodCallResult(self, s.res))

\* FlexServPodDeployment::stop_impl (the trait's stop)
Stop ==
    LET self == pod_deployment
        config == pods_config(self)
    IN  IF ~config.ok
        THEN Return("stop", self, pods, volumes, <<>>, config)
        ELSE \E s \in stop_pod(pods, volumes, self.pod_id) :
               Return("stop", self, s.pods, s.volumes,
                      <<Call("stop_pod", self.pod_id, s)>>,
                      PodCallResult(self, s.res))

\* TerminateResult returning the error of the volume deletion when both
\* deletions failed.
TerminateResultVolumeError(self, pod_res, vol_res) ==
    IF ~pod_res.ok /\ vol_res.some /\ ~vol_res.v.ok
    THEN Err(map_pods_error(vol_res.v.err))
    ELSE Ok(PodResult(self, None, <<"deleted">>, <<>>))

\* terminate_impl after its calls: pod_res is what delete_pod returned and
\* vol_res what delete_volume returned, None when it was not called.
TerminateResult(self, pod_res, vol_res) ==
    LET pod_failed == ~pod_res.ok
        vol_failed == vol_res.some /\ ~vol_res.v.ok
        vol_info ==
          IF self.volume_id = <<>> THEN <<"no volume">>
          ELSE IF vol_res.some /\ vol_res.v.ok
          THEN DebugText(vol_res.v.value)
          ELSE <<"deleted">>
        combined_info ==
          << "pod: ",
             DebugText(IF pod_res.ok THEN DebugText(pod_res.value) ELSE <<"deleted">>),
             "\nvolume: ", vol_info >>
    IN  IF pod_failed /\ vol_failed
        THEN Err(map_pods_error(pod_res.err))
        ELSE Ok(PodResult(self, None, combined_info, <<>>))

\* FlexServPodDeployment::terminate_impl (the trait's terminate)
Terminate ==
    LET self == pod_deployment
        config == pods_config(self)
    IN  IF ~config.ok
        THEN Return("terminate", self, pods, volumes, <<>>, config)
        ELSE
          \E d1 \in delete_pod(pods, volumes, self.pod_id) :
            IF self.volume_id # <<>>
            THEN \E d2 \in delete_volume(d1.pods, d1.volumes, self.volume_id) :
                   Return("terminate", self, d2.pods, d2.volumes,
                          << Call("delete_pod", self.pod_id, d1),
                             Call("delete_volume", self.volume_id, d2) >>,
                          TerminateResult(self, d1.res, Some(d2.res)))
            ELSE Return("terminate", self, d1.pods, d1.volumes,
                        << Call("delete_pod", self.pod_id, d1) >>,
                        TerminateResult(self, d1.res, None))

\* FlexServPodDeployment::monitor_impl (the trait's monitor)
Monitor ==
    LET self == pod_deployment
        config == pods_config(self)
    IN  IF ~config.ok
        THEN Return("monitor", self, pods, volumes, <<>>, config)
        ELSE
          \E g \in get_pod(pods, volumes, self.pod_id) :
            LET call_g == Call("get_pod", self.pod_id, g)
            IN  IF ~g.res.ok
                THEN Return("monitor", self, g.pods, g.volumes, <<call_g>>,
                            Err(map_pods_error(g.res.err)))
                ELSE LET result == g.res.value.result
                     IN  IF self.volume_id = <<>>
                         THEN Return("monitor", self, g.pods, g.volumes, <<call_g>>,
                                     Ok(PodResult(self, pod_url_from_result(result),
                                                  DebugText(result), <<>>)))
                         ELSE \E gv \in get_volume(g.pods, g.volumes, self.volume_id) :
                                Return("monitor", self, gv.pods, gv.volumes,
                                       <<call_g, Call("get_volume", self.volume_id, gv)>>,
                                       Ok(PodResult(self, pod_url_from_result(result),
                                                    DebugText(result),
                                                    IF gv.res.ok
                                                    THEN DebugText(gv.res.value.result)
                                                    ELSE <<>>)))

(***************************************************************************)
(* map_pods_error called on its own, as the unit tests call it, on every   *)
(* kind of apis::Error: a response with any status code a StatusCode can   *)
(* hold, a transport error with any answers of is_timeout and is_connect   *)
(* (an attempt to connect that timed out answers yes to both), and the     *)
(* middleware, serde and I/O errors.                                       *)
(***************************************************************************)
StatusCodes == 100..999
PodsErrors ==
    { ResponseError(status, <<"x">>) : status \in StatusCodes }
      \cup { ReqwestError(t, c) : t \in BOOLEAN, c \in BOOLEAN }
      \cup { [kind |-> k] : k \in {"ReqwestMiddleware", "Serde", "Io"} }

InitMap ==
    /\ pods_error \in PodsErrors
    /\ mapped_error = NotMapped
    /\ b62_pc = "idle" /\ b62_src = <<>> /\ b62_text = <<>> /\ b62_result = NotCalled
    /\ cli_pc = "idle" /\ params = EmptyMap /\ cli_args = <<>>
    /\ make_server = IdleServer /\ deployments = NoDeployments
    /\ instances = NoInstances /\ hashes = NoHashes
    /\ builder = IdleBuilder /\ built = NotBuilt
    /\ parameter_set = NoParameterSet
    /\ pod_deployment = NoPodDeployment /\ pods = {} /\ volumes = {}
    /\ pod_op = "none" /\ api_calls = <<>> /\ op_result = NoResult

\* let mapped = FlexServPodDeployment::map_pods_error(err);
MapPodsError ==
    /\ mapped_error = NotMapped
    /\ mapped_error' = map_pods_error(pods_error)
    /\ UNCHANGED pods_error
    /\ UNCHANGED not_map_vars

(***************************************************************************)
(* Specifications.  Each part of the program is exercised by its own       *)
(* specification; the state of the other parts is idle meanwhile.          *)
(***************************************************************************)
NextCodec == Encode \/ Decode
SpecCodec == InitCodec /\ [][NextCodec]_vars

NextCli == InsertParam \/ ToCliArgs
SpecCli == InitCli /\ [][NextCli]_vars

NextIds == WithOptions
SpecIds == InitIds /\ [][NextIds]_vars

NextConstruct == New \/ WithOptions \/ FromConfigs \/ CreateDeployment
SpecConstruct == InitConstruct /\ [][NextConstruct]_vars

NextParams == BuildParamsForPod \/ BuildParamsForHpc
SpecParams == InitParams /\ [][NextParams]_vars

NextHash == NewInstance \/ DeploymentHash
SpecHash == InitHash /\ [][NextHash]_vars

NextBuilder == SetTenantUrl \/ SetTapisUser \/ SetModel \/ SetBackend \/ Build
SpecBuilder == InitBuilder /\ [][NextBuilder]_vars

NextPod == Create \/ Start \/ Stop \/ Terminate \/ Monitor
SpecPod == InitPod /\ [][NextPod]_vars

NextMap == MapPodsError
SpecMap == InitMap /\ [][NextMap]_vars

(***************************************************************************)
(* Properties of the codec, checked under SpecCodec.                       *)
(***************************************************************************)
\* The states in which encode has returned / decode has returned.
Encoded == b62_pc \in {"encoded", "roundtrip"}
Decoded == b62_pc \in {"roundtrip", "decoded"}

\* C1: for every byte sequence b, decode(encode(b)) returns Ok(b).
C1_RoundTrip == b62_pc = "roundtrip" => b62_result = Ok(b62_src)

\* C3: for every non-empty length L, decode's length check accepts L if and
\* only if L = encode_len(n) for some byte count n (n <= L, because encode
\* never returns fewer symbols than it was given bytes).
C3_LengthCheckIffEncodeLength ==
    (Decoded /\ b62_text # <<>>) =>
        ( b62_result # BadInput(<<"invalid input length">>)
            <=> \E n \in 0..Len(b62_text) : encode_len(n) = Len(b62_text) )

\* The big-endian unsigned value of a byte sequence (of at most 3 bytes
\* after its leading zeros, so that it fits 32-bit integers).
RECURSIVE BigEndianValue(_)
BigEndianValue(b) ==
    IF b = <<>> THEN 0
    ELSE 256 * BigEndianValue(SubSeq(b, 1, Len(b) - 1)) + b[Len(b)]

Pow62 == <<1, 62, 3844, 238328, 14776336, 916132832>>

\* The base-62 representation of v < 62^6, most significant symbol first,
\* on exactly `width` symbols ('0' on the left).
Base62Text(v, width) ==
    [i \in 1..width |->
        LET k == width - i
        IN  IF k > 5 THEN "0" ELSE ALPHABET[((v \div Pow62[k + 1]) % 62) + 1]]

SignificantBytes(b) == SubSeq(b, LeadingCount(b, 0) + 1, Len(b))

\* C4: encode(b) is the base-62 representation of the big-endian value of
\* b, most significant symbol first, left-padded with '0' to a length that
\* depends only on len(b); k leading zero bytes give at least k leading '0'
\* symbols; encode([0,1]) = "001".
C4_EncodeIsPaddedBase62 ==
    Encoded =>
        LET k == LeadingCount(b62_src, 0)
            width == encode_len(Len(b62_src))
            sig == SignificantBytes(b62_src)
        IN  /\ Len(b62_text) = width
            /\ LeadingCount(b62_text, 48) >= k
            /\ Len(sig) <= 3 =>
                  /\ width < 6 => BigEndianValue(sig) < Pow62[width + 1]
                  /\ b62_text = as_bytes(Base62Text(BigEndianValue(sig), width))
            /\ b62_src = <<0, 1>> => b62_text = <<48, 48, 49>>

\* C4 witness: encode has returned "001" for [0,1], and "00...0" followed by
\* the digits of 255*256+255 for an input with many leading zero bytes.
C4_Witness ==
    /\ Encoded
    /\ Len(b62_src) > BASE256BLOCK_LEN
    /\ LeadingCount(b62_src, 0) = Len(b62_src) - 2
    /\ SubSeq(b62_src, Len(b62_src) - 1, Len(b62_src)) = <<255, 255>>
    /\ SubSeq(b62_text, Len(b62_text) - 2, Len(b62_text)) = <<72, 51, 49>>

\* The bytes of the alphabet [0-9A-Za-z].
IsAlphabetByte(x) == x \in (48..57) \cup (65..90) \cup (97..122)

\* C5: decode returns Err(BadInput), never Ok, for every non-empty input
\* that has a byte outside the alphabet, wherever the byte is.
C5_InvalidByteIsBadInput ==
    (Decoded /\ \E i \in 1..Len(b62_text) : ~IsAlphabetByte(b62_text[i])) =>
        /\ ~b62_result.ok
        /\ b62_result.reason[1] \in {"invalid input length", "bad input"}

\* C5 witness: decode has rejected, because of its bytes, a text of an
\* acceptable length whose last byte only is outside the alphabet.
C5_Witness ==
    /\ b62_pc = "decoded"
    /\ Len(b62_text) >= 3
    /\ \A i \in 1..(Len(b62_text) - 1) : IsAlphabetByte(b62_text[i])
    /\ ~IsAlphabetByte(b62_text[Len(b62_text)])
    /\ b62_result = BadInput(<<"bad input", b62_text[Len(b62_text)]>>)

(***************************************************************************)
(* Properties of to_cli_args, checked under SpecCli.                       *)
(***************************************************************************)
Serialised == cli_pc = "serialised"

\* The code of a character of a parameter key; String's order compares
\* keys byte by byte.
KeyCharCode(ch) ==
    IF ch = "-" THEN 45 ELSE IF ch = "_" THEN 95 ELSE AsciiCode(ch)

\* a < b in lexicographic order.
RECURSIVE LexLess(_, _)
LexLess(a, b) ==
    IF b = <<>> THEN FALSE
    ELSE IF a = <<>> THEN TRUE
    ELSE IF Head(a) # Head(b) THEN KeyCharCode(Head(a)) < KeyCharCode(Head(b))
    ELSE LexLess(Tail(a), Tail(b))

\* The keys of K in ascending lexicographic order.
AscendingKeys(K) ==
    CHOOSE o \in IterationOrders(K) :
        \A i, j \in DOMAIN o : i < j => LexLess(o[i], o[j])

\* C2: to_cli_args visits the keys in ascending lexicographic key order
\* whatever the iteration order of the mapping; {z: 1, a: 2} gives exactly
\* ["--a", "2", "--z", "1"]; equal parameter sets serialise to equal lists.
C2_AscendingKeyOrder ==
    Serialised =>
        /\ cli_args = to_cli_args(params, AscendingKeys(DOMAIN params))
        /\ params = [k \in {<<"a">>, <<"z">>} |->
                        IF k = <<"z">> THEN NumberValue(1) ELSE NumberValue(2)]
             => cli_args = << <<"-", "-", "a">>, <<"2">>, <<"-", "-", "z">>, <<"1">> >>

\* What the specification says about one entry: the flag is "--" and the key with
\* every underscore replaced by a hyphen.
ClaimFlag(key) ==
    <<"-", "-">> \o [i \in 1..Len(key) |-> IF key[i] = "_" THEN "-" ELSE key[i]]

Suppressed == {FLEXSERV_TOKEN_KEY, DEFAULT_MODEL_KEY}

\* A token on which a statement puts no condition.
AnyToken == <<"(any token)">>

\* A string that JSON writes as it is (no quote, backslash or control
\* character in it).
IsPlainString(s) == \A i \in 1..Len(s) : s[i] \notin {Quote, Backslash, Newline}

\* C6, for one entry: "--k'" for true; nothing for false and null; "--k'"
\* and the value's text for a number or a string.  The text is the decimal
\* numeral of a number and the characters of a plain string.
C6_EntryTokens(key, value) ==
    IF key \in Suppressed THEN <<>>
    ELSE IF value = BoolValue(TRUE) THEN <<ClaimFlag(key)>>
    ELSE IF value \in {BoolValue(FALSE), NullValue} THEN <<>>
    ELSE IF value = NumberValue(1) THEN <<ClaimFlag(key), <<"1">> >>
    ELSE IF value = NumberValue(2) THEN <<ClaimFlag(key), <<"2">> >>
    ELSE IF value.t = "String" /\ IsPlainString(value.s)
    THEN <<ClaimFlag(key), value.s>>
    ELSE <<ClaimFlag(key), AnyToken>>

\* The concatenation of C6_EntryTokens over the keys in `order`.
RECURSIVE C6_Expected(_, _)
C6_Expected(map, order) ==
    IF order = <<>> THEN <<>>
    ELSE C6_EntryTokens(Head(order), map[Head(order)])
           \o C6_Expected(map, Tail(order))

\* The list `args` is the list `expected`, up to the tokens left open.
Matches(args, expected) ==
    /\ Len(args) = Len(expected)
    /\ \A i \in 1..Len(args) : expected[i] = AnyToken \/ args[i] = expected[i]

NonSuppressedKeys == DOMAIN params \ Suppressed

\* C6: the output is, for each non-suppressed key in the order of the
\* visit, one flag (true), nothing (false, null) or flag and text (string,
\* number), and nothing else: its length is the number of true booleans
\* plus twice the number of strings and numbers.
C6_TokensPerEntry ==
    Serialised =>
        /\ \E order \in IterationOrders(DOMAIN params) :
              Matches(cli_args, C6_Expected(params, order))
        /\ Len(cli_args) =
              Cardinality({k \in NonSuppressedKeys : params[k] = BoolValue(TRUE)})
                + 2 * Cardinality({k \in NonSuppressedKeys :
                                      params[k].t \in {"String", "Number"}})

\* C6 witness: a set with a true boolean, a false boolean or null, and a
\* number under non-suppressed keys (one of them with an underscore) has
\* been serialised to three tokens.
C6_Witness ==
    /\ Serialised
    /\ \E k1, k2, k3 \in NonSuppressedKeys :
          /\ params[k1] = BoolValue(TRUE)
          /\ \E i \in 1..Len(k1) : k1[i] = "_"
          /\ params[k2] \in {BoolValue(FALSE), NullValue}
          /\ params[k3].t = "Number"
    /\ Len(cli_args) = 3

\* The mapping without the suppressed keys.
WithoutSuppressed(map) == [k \in DOMAIN map \ Suppressed |-> map[k]]

\* C7: no token is emitted for flexserv-token and default-model, whatever
\* their values, and the tokens of the other keys are those that the set
\* without the two keys serialises to.
C7_SuppressedKeysEmitNothing ==
    Serialised =>
        \E order \in IterationOrders(NonSuppressedKeys) :
            /\ cli_args = to_cli_args(WithoutSuppressed(params), order)
            /\ Matches(cli_args, C6_Expected(params, order))

\* C7 witness: a set holding both suppressed keys, one of them with a
\* string, and a key that emits tokens has been serialised.
C7_Witness ==
    /\ Serialised
    /\ Suppressed \subseteq DOMAIN params
    /\ params[FLEXSERV_TOKEN_KEY] = StringValue(<<"s">>)
    /\ params[DEFAULT_MODEL_KEY] = BoolValue(TRUE)
    /\ Len(cli_args) = 2

\* C8, for one entry: the token after the flag of a string value is the
\* string itself; the other tokens are left open.
C8_EntryTokens(key, value) ==
    IF key \in Suppressed THEN <<>>
    ELSE IF value = BoolValue(TRUE) THEN <<AnyToken>>
    ELSE IF value \in {BoolValue(FALSE), NullValue} THEN <<>>
    ELSE IF value.t = "String" THEN <<AnyToken, value.s>>
    ELSE <<AnyToken, AnyToken>>

RECURSIVE C8_Expected(_, _)
C8_Expected(map, order) ==
    IF order = <<>> THEN <<>>
    ELSE C8_EntryTokens(Head(order), map[Head(order)])
           \o C8_Expected(map, Tail(order))

\* C8: for every string value s, quotes, backslashes and control
\* characters included, the value token is exactly s.
C8_StringTokenVerbatim ==
    Serialised =>
        \E order \in IterationOrders(DOMAIN params) :
            Matches(cli_args, C8_Expected(params, order))

(***************************************************************************)
(* Properties of the identifier derivation, checked under SpecIds.         *)
(***************************************************************************)
\* deployment_hash of every server configuration; the comparison makes the
\* table be computed once, when it is first used.
HashOf ==
    LET table == [s \in Servers |-> deployment_hash(s)]
    IN  IF table = table THEN table ELSE table

\* The ASCII alphanumeric characters of id, in order, lower-cased.
AlnumLowercased(id) ==
    LET kept == SelectSeq(id, is_ascii_alphanumeric)
    IN  [i \in 1..Len(kept) |-> char_to_lowercase(kept[i])]

\* The suffix C9 describes for a deployment.
C9_Suffix(dep) ==
    LET id == dep.options.deployment_id
    IN  IF id.some /\ \E i \in 1..Len(id.v) : is_ascii_alphanumeric(id.v[i])
        THEN AlnumLowercased(id.v)
        ELSE to_lowercase(HashOf[dep.server])

P_UUID1 ==
    << "p", "5", "5", "0", "e", "8", "4", "0", "0", "e", "2", "9", "b", "4", "1", "d", "4",
       "a", "7", "1", "6", "4", "4", "6", "6", "5", "5", "4", "4", "0", "0", "0", "0" >>
V_UUID1 == <<"v">> \o Tail(P_UUID1)

\* C9: the suffix is the supplied id with its non-alphanumeric characters
\* removed and its letters lower-cased when the id has an alphanumeric
\* character, the lower-cased deployment hash otherwise; the ids are "p" and
\* "v" followed by the suffix, equal for equal inputs; the example UUID
\* gives p550e8400e29b41d4a716446655440000 / v550e8400e29b41d4a716446655440000.
C9_IdsFromOptions ==
    /\ \A d \in DOMAIN deployments :
          LET dep == deployments[d]
          IN  /\ dep.pod_id = <<"p">> \o C9_Suffix(dep)
              /\ dep.volume_id = <<"v">> \o C9_Suffix(dep)
              /\ dep.options.deployment_id = Some(UUID1) =>
                    dep.pod_id = P_UUID1 /\ dep.volume_id = V_UUID1
    /\ \A d, e \in DOMAIN deployments :
          ( deployments[d].server = deployments[e].server
              /\ deployments[d].options = deployments[e].options )
            => ( deployments[d].pod_id = deployments[e].pod_id
                   /\ deployments[d].volume_id = deployments[e].volume_id )

\* C9 witness: one deployment was built with the example UUID and one
\* with an id that has no alphanumeric character, which got the hash.
C9_Witness ==
    /\ DOMAIN deployments = Slots
    /\ deployments["d1"].options.deployment_id = Some(UUID1)
    /\ deployments["d1"].pod_id = P_UUID1
    /\ deployments["d2"].options.deployment_id = Some(<<"-">>)
    /\ Len(deployments["d2"].pod_id) = 13
    /\ deployments["d2"].volume_id = <<"v">> \o Tail(deployments["d2"].pod_id)

IdPair(dep) == <<dep.pod_id, dep.volume_id>>

\* Two deployments of equal descriptors, each with an explicit id.
SameDescriptorExplicitIds(d, e) ==
    /\ d \in DOMAIN deployments /\ e \in DOMAIN deployments
    /\ deployments[d].server = deployments[e].server
    /\ deployments[d].options.deployment_id.some
    /\ deployments[e].options.deployment_id.some

\* C10: two deployments with equal descriptors that differ only in their
\* explicit deployment id have different (pod_id, volume_id) pairs, for
\* every pair of distinct explicit ids.
C10_DistinctIdsDistinctPairs ==
    \A d, e \in Slots :
        ( SameDescriptorExplicitIds(d, e)
            /\ deployments[d].options.deployment_id # deployments[e].options.deployment_id )
          => IdPair(deployments[d]) # IdPair(deployments[e])

\* C10 as amended: the pairs differ for every pair of explicit ids whose
\* normalised forms (ASCII alphanumeric characters only, lower-cased) are
\* non-empty and distinct.
C10_DistinctNormalisedIdsDistinctPairs ==
    \A d, e \in Slots :
        ( SameDescriptorExplicitIds(d, e)
            /\ AlnumLowercased(deployments[d].options.deployment_id.v) # <<>>
            /\ AlnumLowercased(deployments[e].options.deployment_id.v) # <<>>
            /\ AlnumLowercased(deployments[d].options.deployment_id.v)
                 # AlnumLowercased(deployments[e].options.deployment_id.v) )
          => /\ deployments[d].pod_id # deployments[e].pod_id
             /\ deployments[d].volume_id # deployments[e].volume_id

\* C10 witness: the two UUIDs of the tests gave two different pairs.
C10_Witness ==
    /\ DOMAIN deployments = Slots
    /\ deployments["d1"].options.deployment_id = Some(UUID1)
    /\ deployments["d2"].options.deployment_id = Some(UUID2)
    /\ IdPair(deployments["d1"]) # IdPair(deployments["d2"])

(***************************************************************************)
(* Properties of deployment_hash, checked under SpecHash.                  *)
(***************************************************************************)
\* The instances on which deployment_hash has returned, and what the first
\* call returned.
Hashed == { s \in DOMAIN instances : hashes[s] # <<>> }
Token(s) == hashes[s][1]

\* The four fields of the deployment descriptor.
Descriptor(self) ==
    << self.tapis_user, self.tenant_url, self.default_model, self.backend >>

\* C12: two descriptors that differ in at least one of user, tenant, model
\* and backend have different fingerprint strings and different deployment
\* hash tokens.
C12_DifferentDescriptorsDifferentTokens ==
    \A s1 \in Hashed, s2 \in Hashed :
       Descriptor(instances[s1]) # Descriptor(instances[s2]) =>
          /\ config_string(instances[s1]) # config_string(instances[s2])
          /\ Token(s1) # Token(s2)

\* The number of the five parts (user, tenant, model, backend kind, backend
\* command sequence) in which two instances differ.
Differ(x, y) == IF x = y THEN 0 ELSE 1
PartsChanged(a, b) ==
    Differ(a.tapis_user, b.tapis_user) + Differ(a.tenant_url, b.tenant_url)
      + Differ(a.default_model, b.default_model)
      + Differ(a.backend.kind, b.backend.kind)
      + Differ(a.backend.command, b.backend.command)

\* C13: two descriptors that differ in exactly one of user, tenant, model,
\* backend kind and backend command sequence have different fingerprint
\* strings and different deployment hash tokens.
C13_OneChangedPartChangesToken ==
    \A s1 \in Hashed, s2 \in Hashed :
       PartsChanged(instances[s1], instances[s2]) = 1 =>
          /\ config_string(instances[s1]) # config_string(instances[s2])
          /\ Token(s1) # Token(s2)

\* Each of the five parts is changed alone in some pair of hashed instances:
\* here the command sequence.
C13_Witness ==
    \E s1 \in Hashed, s2 \in Hashed :
       /\ PartsChanged(instances[s1], instances[s2]) = 1
       /\ instances[s1].backend.command # instances[s2].backend.command

\* C14: two instances that agree on user, tenant, model and backend return
\* the same token whatever their model_revision, hf_token and
\* default_embedding_model, and every call on an instance returns the token
\* of the first call.
C14_TokenDependsOnDescriptorOnly ==
    /\ \A s1 \in Hashed, s2 \in Hashed :
          Descriptor(instances[s1]) = Descriptor(instances[s2]) =>
             Token(s1) = Token(s2)
    /\ \A s \in Hashed : \A i \in 1..Len(hashes[s]) : hashes[s][i] = Token(s)

C14_Witness ==
    \E s1 \in Hashed, s2 \in Hashed :
       /\ Descriptor(instances[s1]) = Descriptor(instances[s2])
       /\ instances[s1].model_revision # instances[s2].model_revision
       /\ instances[s1].hf_token # instances[s2].hf_token
       /\ instances[s1].default_embedding_model
            # instances[s2].default_embedding_model
       /\ Len(hashes[s1]) = MaxHashCalls

\* The length of the base62 text of the digest, for the instances of the
\* model, evaluated once each.
DigestTextLenOf ==
    LET table == [self \in HashInstances |->
                    Len(encode(Sha256Digest(config_string(self))))]
    IN  IF table = table THEN table ELSE table

\* C15: deployment_hash returns exactly 12 characters, each in [0-9A-Za-z],
\* for every descriptor, empty user, tenant, model and command sequence
\* included; the digest encodes to 43 symbols.
C15_TwelveAlphanumericCharacters ==
    \A s \in Hashed :
       /\ Len(Token(s)) = 12
       /\ \A i \in 1..Len(Token(s)) : is_ascii_alphanumeric(Token(s)[i])
       /\ DigestTextLenOf[instances[s]] = BASE62BLOCK_LEN

C15_Witness ==
    \E s \in Hashed :
       /\ instances[s].tapis_user = <<>>
       /\ instances[s].tenant_url = <<>>
       /\ instances[s].default_model = <<>>
       /\ instances[s].backend.command = <<>>

(***************************************************************************)
(* Properties of FlexServInstanceBuilder::build, checked under SpecBuilder.*)
(***************************************************************************)
\* build has returned.
BuildReturned == built # NotBuilt

\* A field that is missing, empty or whitespace only.
Blank(opt) == trim(unwrap_or_default(opt)) = <<>>

\* C18: with tenant_url "not-a-url" and a valid user, model and backend,
\* build returns Err(InvalidTenantUrl).
C18_NotAUrlRejected ==
    ( /\ BuildReturned
      /\ builder.tenant_url = Some(NOT_A_URL)
      /\ ~Blank(builder.tapis_user)
      /\ ~Blank(builder.default_model)
      /\ builder.backend.some )
    => built = Err(InvalidTenantUrl)

\* Tenants that fail the first check (missing, empty, whitespace only, a
\* scheme and nothing else) and tenants that pass it (a host with or without
\* a scheme, padded or not).
FailingTenants == { None, Some(<<>>), Some(<<" ">>), Some(HTTPS) }
AcceptableTenants ==
    { Some(<<"t", ".", "i", "o">>), Some(HTTPS \o <<"t">>),
      Some(<<" ">> \o HTTPS \o <<"t", " ">>), Some(HTTP \o <<"h", "o">>) }

\* C19: build checks tenant_url, tapis_user, model, backend in this order
\* and returns the error of the first check that fails; on Ok the tenant_url
\* of the instance starts with http:// or https://, and its user and model
\* are non-empty and trimmed.
C19_FirstFailingCheck ==
    BuildReturned =>
       /\ builder.tenant_url \in FailingTenants => built = Err(InvalidTenantUrl)
       /\ ( /\ builder.tenant_url \in AcceptableTenants
            /\ Blank(builder.tapis_user) )
          => built = Err(EmptyTapisUser)
       /\ ( /\ builder.tenant_url \in AcceptableTenants
            /\ ~Blank(builder.tapis_user)
            /\ Blank(builder.default_model) )
          => built = Err(EmptyModelId)
       /\ ( /\ builder.tenant_url \in AcceptableTenants
            /\ ~Blank(builder.tapis_user)
            /\ ~Blank(builder.default_model)
            /\ ~builder.backend.some )
          => built = Err(MissingBackend)
       /\ built.ok =>
            /\ \/ starts_with(built.value.tenant_url, HTTPS)
               \/ starts_with(built.value.tenant_url, HTTP)
            /\ built.value.tapis_user # <<>>
            /\ built.value.tapis_user = trim(built.value.tapis_user)
            /\ built.value.default_model # <<>>
            /\ built.value.default_model = trim(built.value.default_model)

\* build has trimmed a padded user on the way to Ok, and elsewhere has
\* reached the last check.
C19_Witness ==
    /\ built.ok
    /\ builder.tapis_user = Some(<<" ", "u", "\t">>)
    /\ built.value.tapis_user = <<"u">>
    /\ built.value.tenant_url = HTTPS \o <<"t", ".", "i", "o">>

(***************************************************************************)
(* Properties of the constructed identifiers, checked under SpecConstruct. *)
(***************************************************************************)
\* The characters a-z and 0-9.
IsLowercaseAlphanumeric(ch) ==
    \/ \E i \in 1..10 : ALPHABET[i] = ch
    \/ \E i \in 1..26 : AsciiLower[i] = ch

\* C11: every deployment built by new, with_options, from_configs or
\* create_deployment has pod_id = "p" + s and volume_id = "v" + s for one
\* non-empty suffix s of characters a-z and 0-9.
C11_IdFormat ==
    \A d \in DOMAIN deployments :
       LET pod_id == deployments[d].pod_id
           volume_id == deployments[d].volume_id
       IN  /\ Len(pod_id) >= 2
           /\ Head(pod_id) = "p"
           /\ Head(volume_id) = "v"
           /\ Tail(pod_id) = Tail(volume_id)
           /\ \A i \in 2..Len(pod_id) : IsLowercaseAlphanumeric(pod_id[i])

\* Deployments of two constructors stand side by side: one from
\* from_configs with an all-empty configuration and an id without any
\* alphanumeric character, one from create_deployment with an id in capitals.
C11_Witness ==
    \E d1 \in DOMAIN deployments, d2 \in DOMAIN deployments :
       /\ deployments[d1].tapis_token = "jwt"
       /\ deployments[d1].server.tapis_user = <<>>
       /\ deployments[d1].server.tenant_url = <<>>
       /\ deployments[d1].options.deployment_id = Some(<<"-", "_">>)
       /\ deployments[d2].tapis_token = "api-token"
       /\ deployments[d2].options.deployment_id = Some(<<"A", "-", "5">>)

(***************************************************************************)
(* Properties of the derived parameter sets, checked under SpecParams.     *)
(***************************************************************************)
\* The parameters C17 names for the two targets of a Transformers backend.
C17_PodParams(server) ==
    (DEFAULT_MODEL_KEY :> StringValue(server.default_model))
      @@ (HOST_KEY :> StringValue(ANY_ADDRESS))
      @@ (PORT_KEY :> NumberValue(8000))
C17_HpcParams(server) ==
    (DEFAULT_MODEL_KEY :> StringValue(server.default_model))

\* C17: for a Transformers backend build_params_for_pod yields exactly
\* default-model, host "0.0.0.0" and port 8000, and build_params_for_hpc
\* exactly default-model; for the other backends both yield no parameters;
\* env is empty, command is the backend's command, and no call panics.
C17_DerivedParameterSets ==
    parameter_set.call # "none" =>
       /\ parameter_set.result # Panic
       /\ parameter_set.result.command = make_server.backend.command
       /\ parameter_set.result.env = EmptyMap
       /\ parameter_set.result.params =
            IF make_server.backend.kind # "Transformers"
            THEN EmptyMap
            ELSE IF parameter_set.call = "build_params_for_pod"
            THEN C17_PodParams(make_server)
            ELSE C17_HpcParams(make_server)

\* Both kinds of result occur: the hpc set of a Transformers backend.
C17_Witness ==
    /\ parameter_set.call = "build_params_for_hpc"
    /\ make_server.backend.kind = "Transformers"
    /\ make_server.backend.command = <<"python", "-u">>
    /\ DOMAIN parameter_set.result.params = {DEFAULT_MODEL_KEY}

(***************************************************************************)
(* The pod lifecycle.                                                      *)
(***************************************************************************)
\* The pod that the caller's deployment names, when the service has it.
Created == PodOf(pods, pod_deployment.pod_id)

\* The tokens of to_cli_args as words of a command line.
Words(tokens) == [i \in 1..Len(tokens) |-> Str(tokens[i])]

C20_MonitorAfterTerminateFails ==
    [][ (pod_op = "terminate" /\ op_result.ok /\ pod_op' = "monitor")
          => ~op_result'.ok ]_vars

\* C22: whenever decode(s) returns Ok(b), encode(b) is s again: decode
\* accepts only the texts encode produces.
C22_DecodeAcceptsOnlyEncodings ==
    (Decoded /\ b62_result.ok) => as_bytes(encode(b62_result.value)) = b62_text

\* C29: whatever keys the parameter set holds, to_cli_args returns no token
\* equal to --flexserv-token and no token equal to --default-model.
C29_NoSecretFlagInArgs ==
    Serialised =>
      \A i \in DOMAIN cli_args :
        /\ cli_args[i] # <<"-", "-">> \o FLEXSERV_TOKEN_KEY
        /\ cli_args[i] # <<"-", "-">> \o DEFAULT_MODEL_KEY

(***************************************************************************)
(* Properties of map_pods_error, checked under SpecMap.                    *)
(***************************************************************************)
Mapped == mapped_error # NotMapped

DeploymentErrorKinds ==
    { "TapisAuthFailed", "TapisAPIUnreachable", "TapisBadRequest",
      "TapisTimeout", "TapisInternalServerError", "UnknownError",
      "ModelUploadingFailed", "PodCreationFailed", "JobCreationFailed" }

\* What the claim says of every error but a connection failure.
C21_OtherKinds ==
    /\ mapped_error.variant \in DeploymentErrorKinds
    /\ pods_error.kind = "ResponseError" =>
         mapped_error.variant =
           IF pods_error.status \in {401, 403} THEN "TapisAuthFailed"
           ELSE IF pods_error.status = 400 THEN "TapisBadRequest"
           ELSE IF pods_error.status \in 500..599 THEN "TapisInternalServerError"
           ELSE "UnknownError"
    /\ (pods_error.kind = "Reqwest" /\ pods_error.is_timeout) =>
         mapped_error.variant = "TapisTimeout"
    /\ (pods_error.kind = "Reqwest" /\ ~pods_error.is_timeout /\ ~pods_error.is_connect) =>
         mapped_error.variant = "UnknownError"
    /\ pods_error.kind \in {"ReqwestMiddleware", "Serde", "Io"} =>
         mapped_error.variant = "UnknownError"

\* C21 as stated: map_pods_error gives every error exactly one kind, by
\* the table of the claim, in which every connection failure is
\* TapisAPIUnreachable.
C21_MapPodsErrorTable ==
    Mapped =>
      /\ C21_OtherKinds
      /\ (pods_error.kind = "Reqwest" /\ pods_error.is_connect) =>
           mapped_error.variant = "TapisAPIUnreachable"

\* C21 amended: the same table, with TapisAPIUnreachable for the
\* connection failures that are not timeouts.
C21_MapPodsErrorTableTimeoutFirst ==
    Mapped =>
      /\ C21_OtherKinds
      /\ (pods_error.kind = "Reqwest" /\ pods_error.is_connect /\ ~pods_error.is_timeout) =>
           mapped_error.variant = "TapisAPIUnreachable"

C21_Witness ==
    /\ Mapped
    /\ pods_error.kind = "ResponseError"
    /\ pods_error.status = 403
    /\ mapped_error.variant = "TapisAuthFailed"

(***************************************************************************)
(* Properties of the lifecycle operations, checked under SpecPod.          *)
(***************************************************************************)
\* The last operation was `op` and has returned.
Returned(op) == pod_op = op
\* The calls of the last operation to `api`, as indices into api_calls.
CallsTo(api) == { i \in DOMAIN api_calls : api_calls[i].api = api }

\* C23: when terminate() returns Ok, one of its deletions succeeded on the
\* service; a terminate() that deleted nothing returns Err.
C23_TerminateOkDeletedSomething ==
    (Returned("terminate") /\ op_result.ok) =>
      \E i \in DOMAIN api_calls : api_calls[i].res.ok

\* The API configuration can be built from the deployment's token.
Configured == pods_config(pod_deployment).ok

\* What C24 says of a terminate() that has returned: delete_pod is called
\* first, delete_volume second when volume_id is not empty, whatever
\* delete_pod returned; the result is Err exactly when both calls failed,
\* and is then the mapped error of delete_pod.
C24_Statement ==
    /\ Len(api_calls) = (IF pod_deployment.volume_id # <<>> THEN 2 ELSE 1)
    /\ api_calls[1].api = "delete_pod"
    /\ api_calls[1].arg = pod_deployment.pod_id
    /\ Len(api_calls) = 2 =>
         /\ api_calls[2].api = "delete_volume"
         /\ api_calls[2].arg = pod_deployment.volume_id
    /\ ~op_result.ok <=>
         /\ Len(api_calls) = 2
         /\ ~api_calls[1].res.ok
         /\ ~api_calls[2].res.ok
    /\ ~op_result.ok => op_result.err = map_pods_error(api_calls[1].res.err)

C25_CleanupAfterFailedCreatePod ==
    Returned("create") =>
      \A i \in CallsTo("create_pod") :
        ~api_calls[i].res.ok =>
          /\ Len(api_calls) = i + 1
          /\ api_calls[i + 1].api = "delete_volume"
          /\ api_calls[i + 1].arg = pod_deployment.volume_id
          /\ \E j \in 1..(i - 1) :
               /\ api_calls[j].api = "create_volume"
               /\ api_calls[j].arg = pod_deployment.volume_id
               /\ api_calls[j].res.ok
          /\ op_result = Err(map_pods_error(api_calls[i].res.err))

\* create_pod failed and the cleanup failed as well, with another error.
C25_Witness ==
    /\ Returned("create")
    /\ \E i \in CallsTo("create_pod") :
         /\ ~api_calls[i].res.ok
         /\ Len(api_calls) = i + 1
         /\ ~api_calls[i + 1].res.ok
         /\ api_calls[i + 1].res.err # api_calls[i].res.err
         /\ op_result = Err(map_pods_error(api_calls[i].res.err))

\* The last call of the last operation to `api` (0 when there is none).
LastCallTo(api) ==
    IF CallsTo(api) = {} THEN 0
    ELSE CHOOSE i \in CallsTo(api) : \A j \in CallsTo(api) : j <= i

\* C26: the calls of a create() are, in this order, delete_pod(pod_id),
\* delete_volume(volume_id), create_volume and create_pod; create_pod is
\* called only right after a create_volume for volume_id that succeeded,
\* and when the last create_volume failed create() returns Err and has not
\* called create_pod.
C26_CreateCallOrder ==
    (Returned("create") /\ api_calls # <<>>) =>
      /\ Len(api_calls) >= 3
      /\ api_calls[1].api = "delete_pod"
      /\ api_calls[1].arg = pod_deployment.pod_id
      /\ api_calls[2].api = "delete_volume"
      /\ api_calls[2].arg = pod_deployment.volume_id
      /\ api_calls[3].api = "create_volume"
      /\ CallsTo("delete_pod") = {1}
      /\ Cardinality(CallsTo("create_pod")) <= 1
      /\ \A i \in CallsTo("create_pod") :
           /\ CallsTo("create_volume") # {}
           /\ \A j \in CallsTo("create_volume") : j < i
           /\ api_calls[i - 1].api = "create_volume"
           /\ api_calls[i - 1].arg = pod_deployment.volume_id
           /\ api_calls[i - 1].res.ok
      /\ ~api_calls[LastCallTo("create_volume")].res.ok =>
           /\ ~op_result.ok
           /\ CallsTo("create_pod") = {}

\* The first create_volume failed, the second succeeded, create_pod
\* followed.
C26_Witness ==
    /\ Returned("create")
    /\ Len(api_calls) = 6
    /\ ~api_calls[3].res.ok
    /\ api_calls[5].api = "create_volume"
    /\ api_calls[5].res.ok
    /\ api_calls[6].api = "create_pod"
    /\ op_result.ok

\* The text has the words somewhere in it.
HasWords(text, words) ==
    \E i \in 0..(Len(text) - Len(words)) :
      \A k \in 1..Len(words) : text[i + k] = words[k]

\* The error is a response whose content says "already exists" or
\* "UniqueViolation".
SaysAlreadyExists(e) ==
    /\ e.kind = "ResponseError"
    /\ \/ HasWords(e.content, ALREADY_EXISTS_TEXT)
       \/ HasWords(e.content, UNIQUE_VIOLATION_TEXT)

\* C27: create() calls create_volume at most twice.  It calls it a second
\* time exactly when the first call failed with a response that says
\* "already exists" or "UniqueViolation", after a delete_volume of the same
\* id; any other failure of the first call and any failure of the second
\* is returned as the mapped error, and is the last call.
C27_CreateVolumeRetry ==
    (Returned("create") /\ api_calls # <<>>) =>
      LET first == api_calls[3].res
      IN  /\ CallsTo("create_volume") \in { {3}, {3, 5} }
          /\ 5 \in CallsTo("create_volume") <=>
               (~first.ok /\ SaysAlreadyExists(first.err))
          /\ 5 \in CallsTo("create_volume") =>
               /\ api_calls[4].api = "delete_volume"
               /\ api_calls[4].arg = api_calls[5].arg
               /\ api_calls[5].arg = api_calls[3].arg
               /\ ~api_calls[5].res.ok =>
                    /\ Len(api_calls) = 5
                    /\ op_result = Err(map_pods_error(api_calls[5].res.err))
          /\ (~first.ok /\ ~SaysAlreadyExists(first.err)) =>
               /\ Len(api_calls) = 3
               /\ op_result = Err(map_pods_error(first.err))

\* The retried create_volume failed again with "already exists".
C27_Witness ==
    /\ Returned("create")
    /\ Len(api_calls) = 5
    /\ api_calls[5].api = "create_volume"
    /\ ~api_calls[5].res.ok
    /\ SaysAlreadyExists(api_calls[5].res.err)
    /\ ~op_result.ok

\* The fields of a deployment that are set at construction.
Constructed(d) ==
    <<d.pod_id, d.volume_id, d.server, d.tapis_token, d.options>>

\* C28: an operation changes the stored deployment only when it is a
\* create() that returns Ok, and then only pod_info and volume_info, which
\* it sets; the fields set at construction never change, and a create()
\* that returns Err leaves pod_info and volume_info as they were.
C28_StoredStateChangesOnlyOnCreateOk ==
    [][ /\ Constructed(pod_deployment') = Constructed(pod_deployment)
        /\ pod_deployment' # pod_deployment =>
             /\ pod_op' = "create"
             /\ op_result'.ok
             /\ pod_deployment'.pod_info.some
             /\ pod_deployment'.volume_info = Some(pod_deployment.volume_id)
        /\ (pod_op' = "create" /\ ~op_result'.ok) =>
             /\ pod_deployment'.pod_info = pod_deployment.pod_info
             /\ pod_deployment'.volume_info = pod_deployment.volume_info
      ]_vars

\* A create() has returned Err on a deployment that an earlier create()
\* had filled.
C28_Witness ==
    /\ Returned("create")
    /\ ~op_result.ok
    /\ api_calls # <<>>
    /\ pod_deployment.pod_info.some
    /\ pod_deployment.volume_info.some

====
